---- MODULE Spec2Model ----
(***************************************************************************)
(* AdOps: bidding agents competing for one ad spot.                        *)
(*                                                                         *)
(*  Spec        the per-agent coordinator of IntelligentBiddingAgent:      *)
(*              start(), decideBidStrategy, the refund monitor, the        *)
(*              delayed decision timer, the setImmediate requeue, stop().  *)
(*  LedgerSpec  bid negotiation: placeBidTool in front of the auction      *)
(*              ledger, and the refund issuer.                             *)
(*  PollSpec    the event log and the polling consumer of the auction page.*)
(*                                                                         *)
(* Money is counted in cents.                                              *)
(***************************************************************************)
EXTENDS Integers, Sequences, FiniteSets, TLC

(***************************************************************************)
(* Bounds of the coordinator model.                                        *)
(***************************************************************************)
MaxTicks == 2       \* refund-monitor callbacks in flight at once
MaxTasks == 2       \* decideBidStrategy runs in flight at once
MaxIntervals == 1   \* setInterval handles that exist at once
MaxEndTicks == 2    \* auction-end-monitor callbacks in flight at once
MaxQueued == 1      \* pending setTimeout / setImmediate callbacks of a kind
InitBalance == 1    \* the wallet's funds when the agent starts

VARIABLES
    \* ---- IntelligentBiddingAgent fields
    isActive,             \* this.isActive
    isInAIReasoning,      \* this.isInAIReasoning
    refundPending,        \* this.refundPending
    lastRefundAmount,     \* this.lastRefundAmount (0: undefined)
    monitoringInterval,   \* this.monitoringInterval (0: null, else a handle)
    auctionEndMonitoringInterval,  \* this.auctionEndMonitoringInterval holds a handle
    \* ---- the event loop
    intervals,            \* handle -> [live, previousBalance]: the setInterval closures
    ticks,                \* refund-monitor callbacks in flight
    tasks,                \* decideBidStrategy runs in flight
    timers,               \* pending setTimeout(decide, delay) callbacks
    immediates,           \* pending setImmediate(decide) callbacks
    startPc,              \* position of start()
    \* ---- the world the agent observes
    balance,              \* the wallet's USDC balance
    currentWinner,        \* the ledger's currentWinner, seen from this agent
    auctionEnded,         \* the ledger's auctionEnded
    endTicks,             \* auction-end-monitor callbacks in flight
    winnerAdImage,        \* the ledger's winnerAdImage.url is set
    \* ---- history
    unanswered,           \* an outbid happened and no decision cycle has begun since
    generations,          \* creative generations started
    closed,               \* a bid of this agent was rejected because the auction is closed
    stopped,              \* stop() has returned, called after start() was
    ownUpgrades           \* history: the refund monitor took an increase for an own upgrade

endVars == <<endTicks, winnerAdImage, generations>>

agentVars == <<isActive, isInAIReasoning, refundPending, lastRefundAmount,
               monitoringInterval, auctionEndMonitoringInterval, intervals, ticks,
               tasks, timers, immediates, startPc, balance, currentWinner,
               auctionEnded, unanswered, endVars, closed, stopped, ownUpgrades,
               ownUpgrades>>

VARIABLES
    bidRecord,       \* the ledger's record of the ad spot (getAdSpotRecord)
    bases,           \* history: the currentBid each accepted bid was validated against
    scheduled,       \* bid records handed to the refund issuer
    refunds,         \* the refund records, in the order written
    pending,         \* agent -> its bid request in flight
    lastBidAmount,   \* agent -> this.lastBidAmount
    toolResult,      \* what the last place_bid invocation returned
    attempts,        \* history: what each place_bid invocation returned, in order
    refundFailures,  \* history: the bid records whose refund met a gateway failure
    returns          \* number of place_bid invocations that returned

ledgerVars == <<bidRecord, bases, scheduled, refunds, pending, lastBidAmount,
                toolResult, attempts, refundFailures, returns>>

VARIABLES
    now,             \* the wall clock, in seconds
    store,           \* the stored events of the ad spot, in the order inserted
    adSpotId,        \* the ad spot of the mounted page, or of the request
    isPolling,       \* page: isPolling
    lastFetched,     \* page: lastFetched
    seenEventIds,    \* page: seenEventIds
    messages,        \* page: messages
    currentBid,      \* page: currentBid
    polls,           \* the pollEvents calls in flight
    polled,          \* number of pollEvents calls started
    pollDue,         \* when the polling interval fires next
    delivered,       \* history: event -> how many polls handed it to processEvent
    fetched,         \* history: the first full history a client of the route has read
    loadPending      \* page: loadInitialState has not returned yet

VARIABLES
    maxBid,               \* the agent's configured maxBid, in cents
    payResult,            \* what the last processEventPayment call returned
    settled               \* payments executed

payVars == <<maxBid, payResult, settled>>

VARIABLES
    genPc,                \* where one execute() of the generate_ad_image tool stands
    genI,                 \* the loop index i of its polling loop
    genReturn,            \* what execute() returned
    broadcasts,           \* image-status posts that reached the server
    genSeen               \* history: what the status polls of the call reported

genVars == <<genPc, genI, genReturn, broadcasts, genSeen>>

VARIABLES
    chatPc,               \* where one generateText call of a decision cycle stands
    steps,                \* model calls (steps) the call has made
    toolCalls,            \* tool calls of the current step still to run
    invocations,          \* tool invocations run in the cycle
    bidCall               \* the place_bid invocation running or run last

chatVars == <<chatPc, steps, toolCalls, invocations, bidCall>>

pollVars == <<now, store, adSpotId, isPolling, lastFetched, seenEventIds, messages,
              currentBid, polls, polled, pollDue, delivered, fetched, loadPending>>

TickSlots == 1..MaxTicks
TaskSlots == 1..MaxTasks
Handles == DOMAIN intervals   \* the handles of the behaviour: 1..MaxIntervals, or more
EndTickSlots == 1..MaxEndTicks

IdleTick == [pc |-> "idle", iv |-> 0, cur |-> 0, amt |-> 0]
IdleTask == [pc |-> "idle", saw |-> FALSE]
NoInterval == [live |-> FALSE, previousBalance |-> 0]

Min(S) == CHOOSE x \in S : \A y \in S : x <= y

(* The callbacks in flight are kept in one fixed order: which slot holds a
   callback means nothing to the program. *)
PcRank(pc) ==
    CASE pc = "idle" -> 0
      [] pc = "balance" -> 1
      [] pc = "monBalance" -> 2
      [] pc = "status" -> 2
      [] pc = "chat" -> 3

TickRank(t) == ((PcRank(t.pc) * 10 + t.iv) * 10 + t.cur) * 10 + t.amt
TaskRank(t) == PcRank(t.pc) * 10 + (IF t.saw THEN 1 ELSE 0)
SortTicks(tk) == SortSeq(tk, LAMBDA a, b : TickRank(a) > TickRank(b))
SortTasks(ts) == SortSeq(ts, LAMBDA a, b : TaskRank(a) > TaskRank(b))

FreeTicks == {k \in TickSlots : ticks[k].pc = "idle"}
FreeTasks == {s \in TaskSlots : tasks[s].pc = "idle"}
RunningTasks == {s \in TaskSlots : tasks[s].pc # "idle"}

(* getUSDCBalance: the token account's amount, and 0 when the lookup throws. *)
getUSDCBalance == {balance, 0}

(* A handle can be handed out again once it is cleared and no callback of it
   is still in flight. *)
FreeHandles(tk) ==
    {i \in Handles : ~intervals[i].live /\ \A k \in TickSlots : tk[k].iv # i}

(* Forget the closure of a handle that is cleared and has no callback left. *)
Collect(ivs, tk) ==
    [i \in Handles |->
        IF ~ivs[i].live /\ \A k \in TickSlots : tk[k].iv # i
        THEN NoInterval ELSE ivs[i]]

(* stopRefundMonitoring: clearInterval on the handle the field holds. *)
stopRefundMonitoring(ivs) ==
    IF monitoringInterval # 0
    THEN [ivs EXCEPT ![monitoringInterval].live = FALSE]
    ELSE ivs

AgentFieldsWith(handles) ==
    /\ isActive = TRUE
    /\ isInAIReasoning = FALSE
    /\ refundPending = FALSE
    /\ lastRefundAmount = 0
    /\ monitoringInterval = 0
    /\ auctionEndMonitoringInterval = FALSE
    /\ intervals = [i \in handles |-> NoInterval]
    /\ ticks = [k \in TickSlots |-> IdleTick]
    /\ tasks = [s \in TaskSlots |-> IdleTask]
    /\ timers = 0
    /\ immediates = 0
    /\ startPc = "new"
    /\ currentWinner = "none"
    /\ auctionEnded = FALSE
    /\ unanswered = FALSE
    /\ endTicks = [k \in EndTickSlots |-> "idle"]
    /\ winnerAdImage = FALSE
    /\ generations = 0
    /\ closed = FALSE
    /\ stopped = FALSE
    /\ ownUpgrades = FALSE

AgentFields == AgentFieldsWith(1..MaxIntervals)

(* A constructed agent, its wallet holding InitBalance. *)
AgentInit == AgentFields /\ balance = InitBalance

(***************************************************************************)
(* decideBidStrategy                                                       *)
(***************************************************************************)

(* The synchronous head of decideBidStrategy, up to its first await. *)
EnterDecision(s) ==
    /\ refundPending' = FALSE
    /\ isInAIReasoning' = TRUE
    /\ tasks' = SortTasks([tasks EXCEPT ![s] = [pc |-> "balance", saw |-> FALSE]])
    /\ unanswered' = FALSE

(* The finally block; act is this.isActive as the body left it. *)
Finally(s, act) ==
    /\ isInAIReasoning' = FALSE
    /\ tasks' = SortTasks([tasks EXCEPT ![s] = IdleTask])
    /\ IF refundPending /\ act
       THEN /\ immediates < MaxQueued
            /\ refundPending' = FALSE
            /\ immediates' = immediates + 1
       ELSE UNCHANGED <<refundPending, immediates>>

(* start(): set currentAdSpotId, then await the balance. *)
Start ==
    /\ startPc = "new"
    /\ startPc' = "balance"
    /\ UNCHANGED <<isActive, isInAIReasoning, refundPending, lastRefundAmount,
                   monitoringInterval, intervals, ticks, tasks, timers, immediates,
                   balance, currentWinner, auctionEnded, unanswered>>
    /\ UNCHANGED <<auctionEndMonitoringInterval, endVars, closed, stopped, ownUpgrades, ledgerVars,
                   pollVars, payVars, genVars, chatVars>>

(* start() resumes: monitorAuctionEnd installs its interval, then
   decideBidStrategy is entered (start() does not test isActive). *)
StartDecide ==
    /\ startPc = "balance"
    /\ startPc' = "done"
    /\ auctionEndMonitoringInterval' = TRUE
    /\ FreeTasks # {}
    /\ EnterDecision(Min(FreeTasks))
    /\ UNCHANGED <<isActive, lastRefundAmount, monitoringInterval, intervals, ticks,
                   timers, immediates, balance, currentWinner, auctionEnded,
                   endVars, closed, stopped, ownUpgrades, ledgerVars,
                   pollVars, payVars, genVars, chatVars>>

(* The balance of line 964 arrives; startRefundMonitoring returns at once when a
   handle is held, and otherwise awaits the baseline balance. *)
TaskGotBalance(s) ==
    /\ tasks[s].pc = "balance"
    /\ tasks' = SortTasks([tasks EXCEPT ![s].pc =
                    IF monitoringInterval # 0 THEN "chat" ELSE "monBalance"])
    /\ UNCHANGED <<isActive, isInAIReasoning, refundPending, lastRefundAmount,
                   monitoringInterval, intervals, ticks, timers, immediates, startPc,
                   balance, currentWinner, auctionEnded, unanswered>>
    /\ UNCHANGED <<auctionEndMonitoringInterval, endVars, closed, stopped, ownUpgrades, ledgerVars,
                   pollVars, payVars, genVars, chatVars>>

(* startRefundMonitoring resumes with the baseline and installs the interval,
   whatever the field holds by now. *)
TaskMonitorInstalled(s, b) ==
    /\ tasks[s].pc = "monBalance"
    /\ FreeHandles(ticks) # {}
    /\ LET i == Min(FreeHandles(ticks)) IN
        /\ intervals' = [intervals EXCEPT ![i] = [live |-> TRUE, previousBalance |-> b]]
        /\ monitoringInterval' = i
    /\ tasks' = SortTasks([tasks EXCEPT ![s].pc = "chat"])
    /\ UNCHANGED <<isActive, isInAIReasoning, refundPending, lastRefundAmount,
                   ticks, timers, immediates, startPc, balance, currentWinner,
                   auctionEnded, unanswered>>
    /\ UNCHANGED <<auctionEndMonitoringInterval, endVars, closed, stopped, ownUpgrades, ledgerVars,
                   pollVars, payVars, genVars, chatVars>>

(* generateText runs place_bid and the ledger accepts: the wallet pays a. *)
ChatPlaceBid(s, a) ==
    /\ tasks[s].pc = "chat"
    /\ ~auctionEnded
    /\ balance' = balance - a
    /\ currentWinner' = "self"
    /\ UNCHANGED <<isActive, isInAIReasoning, refundPending, lastRefundAmount,
                   monitoringInterval, intervals, ticks, tasks, timers, immediates,
                   startPc, auctionEnded, unanswered>>
    /\ UNCHANGED <<auctionEndMonitoringInterval, endVars, closed, stopped, ownUpgrades, ledgerVars,
                   pollVars, payVars, genVars, chatVars>>

(* Variant: a tool set that also offers the creative tool. *)
createBiddingTools_WithImage ==
    {"get_my_balance", "get_auction_state", "place_bid", "create_mock_campaign",
     "update_mock_campaign", "fetch_stats", "open_x402_session", "pay_per_event",
     "log_action", "generate_ad_image"}

(* The tool set handed to generateText by decideBidStrategy. *)
createBiddingTools ==
    {"get_my_balance", "get_auction_state", "place_bid", "create_mock_campaign",
     "update_mock_campaign", "fetch_stats", "open_x402_session", "pay_per_event",
     "log_action"}

(* generateText runs a tool of its tool set other than place_bid.  The creative
   tool starts a creative generation; the others read, log, or act on the mock
   campaign store, and leave the coordinator as it is. *)
ChatTool(s, t) ==
    /\ tasks[s].pc = "chat"
    /\ t \in createBiddingTools \ {"place_bid"}
    /\ generations' = IF t = "generate_ad_image" THEN generations + 1 ELSE generations
    /\ t = "generate_ad_image" => generations < MaxEndTicks
    /\ UNCHANGED <<isActive, isInAIReasoning, refundPending, lastRefundAmount,
                   monitoringInterval, auctionEndMonitoringInterval, intervals, ticks,
                   tasks, timers, immediates, startPc, balance, currentWinner,
                   auctionEnded, unanswered, endTicks, winnerAdImage, closed, stopped, ownUpgrades,
                   ledgerVars, pollVars, payVars, genVars, chatVars>>

(* place_bid runs within the chat against the ended auction: the ledger answers
   410, which placeBidTool catches and hands to the model as
   {success: false, message}; decideBidStrategy sees no error. *)
ChatBidClosed(s) ==
    /\ tasks[s].pc = "chat"
    /\ auctionEnded
    /\ closed' = TRUE
    /\ UNCHANGED <<isActive, isInAIReasoning, refundPending, lastRefundAmount,
                   monitoringInterval, auctionEndMonitoringInterval, intervals, ticks,
                   tasks, timers, immediates, startPc, balance, currentWinner,
                   auctionEnded, unanswered, endVars, stopped, ownUpgrades,
                   ledgerVars, pollVars, payVars, genVars, chatVars>>

(* generateText returns or throws, and the task runs to its end.  out is
     "done"     a reflection is posted, or a withdrawal that leaves the auction
                open or fails, or nothing is posted, or an error without
                response.status 410 is caught: none changes the agent;
     "ended"    the refund request answers auctionEnded: deactivate and return;
     "gone"     the caught error carries response.status 410: deactivate. *)
ChatEnd(s, out) ==
    /\ tasks[s].pc = "chat"
    /\ IF out = "done"
       THEN /\ UNCHANGED <<isActive, intervals, monitoringInterval>>
            /\ Finally(s, isActive)
       ELSE /\ isActive' = FALSE
            /\ intervals' = Collect(stopRefundMonitoring(intervals), ticks)
            /\ monitoringInterval' = 0
            /\ Finally(s, FALSE)
    /\ auctionEnded' = (auctionEnded \/ out # "done")
    /\ UNCHANGED <<lastRefundAmount, ticks, timers, startPc, balance, currentWinner,
                   unanswered>>
    /\ UNCHANGED <<auctionEndMonitoringInterval, endVars, closed, stopped, ownUpgrades, ledgerVars,
                   pollVars, payVars, genVars, chatVars>>

(***************************************************************************)
(* The refund monitor                                                      *)
(***************************************************************************)

(* The interval fires: a new callback, whether or not an earlier one returned. *)
TickFire(i) ==
    /\ intervals[i].live
    /\ FreeTicks # {}
    /\ IF ~isActive
       THEN /\ intervals' = Collect(stopRefundMonitoring(intervals), ticks)
            /\ monitoringInterval' = 0
            /\ UNCHANGED ticks
       ELSE /\ ticks' = SortTicks([ticks EXCEPT ![Min(FreeTicks)] =
                            [pc |-> "balance", iv |-> i, cur |-> 0, amt |-> 0]])
            /\ UNCHANGED <<intervals, monitoringInterval>>
    /\ UNCHANGED <<isActive, isInAIReasoning, refundPending, lastRefundAmount, tasks,
                   timers, immediates, startPc, balance, currentWinner, auctionEnded,
                   unanswered, ledgerVars, pollVars, payVars, genVars, chatVars>>
    /\ UNCHANGED <<auctionEndMonitoringInterval, endVars, closed, stopped, ownUpgrades, ledgerVars,
                   pollVars, payVars, genVars, chatVars>>

(* currentBalance arrives: no increase updates the baseline; an increase fixes
   refundAmount and asks the ledger who is winning. *)
TickGotBalance(k, b) ==
    /\ ticks[k].pc = "balance"
    /\ LET i == ticks[k].iv IN
       IF b > intervals[i].previousBalance
       THEN /\ ticks' = SortTicks([ticks EXCEPT ![k] =
                            [pc |-> "status", iv |-> i, cur |-> b,
                             amt |-> b - intervals[i].previousBalance]])
            /\ UNCHANGED intervals
       ELSE /\ ticks' = SortTicks([ticks EXCEPT ![k] = IdleTick])
            /\ intervals' = Collect([intervals EXCEPT ![i].previousBalance = b], ticks')
    /\ UNCHANGED <<isActive, isInAIReasoning, refundPending, lastRefundAmount,
                   monitoringInterval, tasks, timers, immediates, startPc, balance,
                   currentWinner, auctionEnded, unanswered>>
    /\ UNCHANGED <<auctionEndMonitoringInterval, endVars, closed, stopped, ownUpgrades, ledgerVars,
                   pollVars, payVars, genVars, chatVars>>

(* Variant: the winner test never recognises the agent. *)
OwnUpgrade_Never(winner) == FALSE

(* The winner test of the status answer: the ledger names this agent. *)
OwnUpgrade(winner) == winner = "self"

(* The status query is answered (ok) or throws (not ok). *)
TickGotStatus(k, ok) ==
    /\ ticks[k].pc = "status"
    /\ ticks' = SortTicks([ticks EXCEPT ![k] = IdleTick])
    /\ LET i == ticks[k].iv
           cur == ticks[k].cur
       IN
       IF ok /\ ~OwnUpgrade(currentWinner)
       THEN /\ lastRefundAmount' = ticks[k].amt
            /\ monitoringInterval' = 0
            /\ intervals' = Collect([stopRefundMonitoring(intervals)
                                        EXCEPT ![i].previousBalance = cur], ticks')
            /\ IF isInAIReasoning
               THEN /\ refundPending' = TRUE
                    /\ tasks' = SortTasks([s \in TaskSlots |->
                                    IF tasks[s].pc # "idle"
                                    THEN [tasks[s] EXCEPT !.saw = TRUE] ELSE tasks[s]])
                    /\ UNCHANGED timers
               ELSE /\ timers < MaxQueued
                    /\ timers' = timers + 1
                    /\ UNCHANGED <<refundPending, tasks>>
       ELSE /\ intervals' = Collect([intervals EXCEPT ![i].previousBalance = cur], ticks')
            /\ UNCHANGED <<lastRefundAmount, monitoringInterval, refundPending, tasks,
                           timers>>
    /\ ownUpgrades' = (ownUpgrades \/ (ok /\ OwnUpgrade(currentWinner)))
    /\ UNCHANGED <<isActive, isInAIReasoning, immediates, startPc, balance,
                   currentWinner, auctionEnded, unanswered>>
    /\ UNCHANGED <<auctionEndMonitoringInterval, endVars, closed, stopped, ledgerVars,
                   pollVars, payVars, genVars, chatVars>>

(* The delayed decision of the idle branch fires. *)
TimerFire ==
    /\ timers > 0
    /\ timers' = timers - 1
    /\ IF isActive
       THEN /\ FreeTasks # {}
            /\ EnterDecision(Min(FreeTasks))
       ELSE UNCHANGED <<refundPending, isInAIReasoning, tasks, unanswered>>
    /\ UNCHANGED <<isActive, lastRefundAmount, monitoringInterval, intervals, ticks,
                   immediates, startPc, balance, currentWinner, auctionEnded>>
    /\ UNCHANGED <<auctionEndMonitoringInterval, endVars, closed, stopped, ownUpgrades, ledgerVars,
                   pollVars, payVars, genVars, chatVars>>

(* The requeue of the finally block fires. *)
ImmediateFire ==
    /\ immediates > 0
    /\ immediates' = immediates - 1
    /\ IF isActive
       THEN /\ FreeTasks # {}
            /\ EnterDecision(Min(FreeTasks))
       ELSE UNCHANGED <<refundPending, isInAIReasoning, tasks, unanswered>>
    /\ UNCHANGED <<isActive, lastRefundAmount, monitoringInterval, intervals, ticks,
                   timers, startPc, balance, currentWinner, auctionEnded>>
    /\ UNCHANGED <<auctionEndMonitoringInterval, endVars, closed, stopped, ownUpgrades, ledgerVars,
                   pollVars, payVars, genVars, chatVars>>

(* stop() *)
Stop ==
    /\ isActive' = FALSE
    /\ auctionEndMonitoringInterval' = FALSE
    /\ intervals' = Collect(stopRefundMonitoring(intervals), ticks)
    /\ monitoringInterval' = 0
    /\ stopped' = (stopped \/ startPc # "new")
    /\ UNCHANGED <<isInAIReasoning, refundPending, lastRefundAmount, ticks, tasks,
                   timers, immediates, startPc, balance, currentWinner, auctionEnded,
                   unanswered, endVars, closed, ownUpgrades, ledgerVars,
                   pollVars, payVars, genVars, chatVars>>

(* The fields of the coordinator the stop operations read or write, and the
   flags they leave alone. *)
Coordinator ==
    [isActive |-> isActive, isInAIReasoning |-> isInAIReasoning,
     refundPending |-> refundPending, lastRefundAmount |-> lastRefundAmount,
     monitoringInterval |-> monitoringInterval, intervals |-> intervals,
     auctionEndMonitoringInterval |-> auctionEndMonitoringInterval]

(* stopRefundMonitoring() on a coordinator c: with a handle in the field,
   clearInterval and null the field; without, nothing. *)
stopRefundMonitoringOn(c) ==
    IF c.monitoringInterval # 0
    THEN [c EXCEPT !.intervals = [@ EXCEPT ![c.monitoringInterval].live = FALSE],
                   !.monitoringInterval = 0]
    ELSE c

(* stopAuctionEndMonitoring() on a coordinator c. *)
stopAuctionEndMonitoring(c) ==
    IF c.auctionEndMonitoringInterval
    THEN [c EXCEPT !.auctionEndMonitoringInterval = FALSE]
    ELSE c

(* Variant: stop() flips the flag instead of clearing it. *)
stop_Toggle(c) ==
    stopAuctionEndMonitoring(stopRefundMonitoringOn([c EXCEPT !.isActive = ~@]))

(* stop() on a coordinator c. *)
stop(c) ==
    stopAuctionEndMonitoring(stopRefundMonitoringOn([c EXCEPT !.isActive = FALSE]))

(***************************************************************************)
(* The auction-end monitor                                                 *)
(***************************************************************************)

EndRank(pc) == CASE pc = "idle" -> 0 [] pc = "status" -> 1 [] pc = "generating" -> 2

SortEndTicks(tk) == SortSeq(tk, LAMBDA a, b : EndRank(a) > EndRank(b))

FreeEndTicks == {k \in EndTickSlots : endTicks[k] = "idle"}

(* The interval fires: a new callback requests the status, whether or not an
   earlier one returned. *)
EndTickFire ==
    /\ auctionEndMonitoringInterval
    /\ FreeEndTicks # {}
    /\ endTicks' = SortEndTicks([endTicks EXCEPT ![Min(FreeEndTicks)] = "status"])
    /\ UNCHANGED <<isActive, isInAIReasoning, refundPending, lastRefundAmount,
                   monitoringInterval, auctionEndMonitoringInterval, intervals, ticks,
                   tasks, timers, immediates, startPc, balance, currentWinner,
                   auctionEnded, unanswered, winnerAdImage, generations, closed, stopped, ownUpgrades,
                   ledgerVars, pollVars, payVars, genVars, chatVars>>

(* The status arrives (ok) or the request fails.  An ended auction won by this
   agent without an ad image: both monitors are stopped and the creative is
   requested from the model with the generate_ad_image tool. *)
EndTickGotStatus(k, ok) ==
    /\ endTicks[k] = "status"
    /\ IF ok /\ auctionEnded /\ currentWinner = "self" /\ ~winnerAdImage
       THEN /\ intervals' = Collect(stopRefundMonitoring(intervals), ticks)
            /\ monitoringInterval' = 0
            /\ auctionEndMonitoringInterval' = FALSE
            /\ endTicks' = SortEndTicks([endTicks EXCEPT ![k] = "generating"])
            /\ generations' = generations + 1
       ELSE /\ endTicks' = SortEndTicks([endTicks EXCEPT ![k] = "idle"])
            /\ UNCHANGED <<intervals, monitoringInterval, auctionEndMonitoringInterval,
                           generations>>
    /\ UNCHANGED <<isActive, isInAIReasoning, refundPending, lastRefundAmount, ticks,
                   tasks, timers, immediates, startPc, balance, currentWinner,
                   auctionEnded, unanswered, winnerAdImage, closed, stopped, ownUpgrades, ledgerVars,
                   pollVars, payVars, genVars, chatVars>>

(* generateText returns, having stored an image ("image") or not ("text"): the
   agent is deactivated; or it throws ("error"): the catch only logs. *)
EndTickGenerated(k, out) ==
    /\ endTicks[k] = "generating"
    /\ endTicks' = SortEndTicks([endTicks EXCEPT ![k] = "idle"])
    /\ isActive' = (isActive /\ out = "error")
    /\ winnerAdImage' = (winnerAdImage \/ out = "image")
    /\ UNCHANGED <<isInAIReasoning, refundPending, lastRefundAmount,
                   monitoringInterval, auctionEndMonitoringInterval, intervals, ticks,
                   tasks, timers, immediates, startPc, balance, currentWinner,
                   auctionEnded, unanswered, generations, closed, stopped, ownUpgrades, ledgerVars,
                   pollVars, payVars, genVars, chatVars>>

(***************************************************************************)
(* The world: the other bidders and the ledger                             *)
(***************************************************************************)

(* Another agent's higher bid is accepted: this agent is refunded r. *)
EnvOutbid(r) ==
    /\ currentWinner = "self"
    /\ ~auctionEnded
    /\ currentWinner' = "other"
    /\ balance' = balance + r
    /\ unanswered' = TRUE
    /\ UNCHANGED <<isActive, isInAIReasoning, refundPending, lastRefundAmount,
                   monitoringInterval, intervals, ticks, tasks, timers, immediates,
                   startPc, auctionEnded>>
    /\ UNCHANGED <<auctionEndMonitoringInterval, endVars, closed, stopped, ownUpgrades, ledgerVars,
                   pollVars, payVars, genVars, chatVars>>

(* The auction's deadline passes. *)
EnvEnd ==
    /\ ~auctionEnded
    /\ auctionEnded' = TRUE
    /\ UNCHANGED <<isActive, isInAIReasoning, refundPending, lastRefundAmount,
                   monitoringInterval, intervals, ticks, tasks, timers, immediates,
                   startPc, balance, currentWinner, unanswered>>
    /\ UNCHANGED <<auctionEndMonitoringInterval, endVars, closed, stopped, ownUpgrades, ledgerVars,
                   pollVars, payVars, genVars, chatVars>>

(* The bidding agent. *)
Next ==
    \/ Start
    \/ StartDecide
    \/ \E s \in TaskSlots : TaskGotBalance(s)
    \/ \E s \in TaskSlots : \E b \in getUSDCBalance : TaskMonitorInstalled(s, b)
    \/ \E s \in TaskSlots : \E a \in 1..balance : ChatPlaceBid(s, a)
    \/ \E s \in TaskSlots : \E t \in createBiddingTools_WithImage : ChatTool(s, t)
    \/ \E s \in TaskSlots : ChatBidClosed(s)
    \/ \E s \in TaskSlots : \E out \in {"done", "ended", "gone"} : ChatEnd(s, out)
    \/ \E i \in Handles : TickFire(i)
    \/ \E k \in TickSlots : \E b \in getUSDCBalance : TickGotBalance(k, b)
    \/ \E k \in TickSlots : \E ok \in BOOLEAN : TickGotStatus(k, ok)
    \/ TimerFire
    \/ ImmediateFire
    \/ Stop
    \/ EndTickFire
    \/ \E k \in EndTickSlots : \E ok \in BOOLEAN : EndTickGotStatus(k, ok)
    \/ \E k \in EndTickSlots : \E out \in {"image", "text", "error"} :
          EndTickGenerated(k, out)
    \/ \E r \in 1..(InitBalance - balance) : EnvOutbid(r)
    \/ EnvEnd

(***************************************************************************)
(* Bid negotiation: placeBidTool, the auction ledger, the refund issuer    *)
(***************************************************************************)

Agents == {"IceCo", "FizzUp"}

(* config.maxBid of the two agents, in cents. *)
MaxBidOf == [IceCo |-> 500, FizzUp |-> 130]

(* The reserve kept for image generation: this.maxBid - 0.08. *)
Reserve == 8

(* The amounts the strategy oracle proposes. *)
Proposals == {40, 50, 75, 125, 492, 600}

MaxAttempts == 4    \* place_bid invocations in one run

NullBid == 0        \* currentBid: null

NoRecord ==
    [exists |-> FALSE, currentBid |-> NullBid, currentWinner |-> "none",
     bidHistory |-> <<>>, auctionEnded |-> FALSE, auctionStartTime |-> 0]

NoRequest == [amount |-> 0, seen |-> 0]

NoResult ==
    [agentId |-> "none", proposedAmount |-> 0, kind |-> "none", status |-> 0,
     maxAllowedBid |-> 0, totalBudget |-> 0, currentBid |-> 0,
     minimumRequired |-> 0]

LedgerInit ==
    /\ bidRecord = NoRecord
    /\ bases = <<>>
    /\ scheduled = {}
    /\ refunds = <<>>
    /\ pending = [a \in Agents |-> NoRequest]
    /\ lastBidAmount = [a \in Agents |-> 0]
    /\ toolResult = NoResult
    /\ attempts = <<>>
    /\ refundFailures = {}
    /\ returns = 0

InFlight == {a \in Agents : pending[a].amount # 0}

(* Variants of the budget validation: the cap itself refused; the reserve
   forgotten. *)
OverBudget_AtCap(a, p) == p >= MaxBidOf[a] - Reserve
OverBudget_NoReserve(a, p) == p > MaxBidOf[a]

(* placeBidTool's budget validation: proposedAmount > this.maxBid - 0.08. *)
OverBudget(a, p) == p > MaxBidOf[a] - Reserve

(* Variant: the reported cap without the reserve. *)
maxAllowedBid_NoReserve(a) == MaxBidOf[a]

(* The cap placeBidTool computes and reports: this.maxBid - 0.08. *)
maxAllowedBid(a) == MaxBidOf[a] - Reserve

(* Variant: the proposal is validated against the currentBid read when the
   request was submitted, a separate read-validate-write. *)
ValidatedAgainst_Stale(a) == pending[a].seen

(* The currentBid a negotiation validates the proposal against: the ledger's,
   read inside the atomic operation. *)
ValidatedAgainst(a) == bidRecord.currentBid

(* The ledger's decision on a proposal that reached it. *)
NegotiationProtocol(ended, against, p) ==
    IF ended THEN "Closed"
    ELSE IF p <= against THEN "TooLow"
    ELSE "Accepted"

(* The HTTP status that carries the decision. *)
StatusOf(verdict) ==
    CASE verdict = "Accepted" -> 200
      [] verdict = "TooLow" -> 400
      [] verdict = "Closed" -> 410

(* Variant: every error response handed on as a bare failure. *)
ToolKind_BareFailure(status) ==
    CASE status = 200 -> "Accepted"
      [] OTHER -> "Failed"

(* What placeBidTool returns for a response: success for 200, proposalRejected
   for 400, needsNegotiation for 402, and a bare failure message otherwise. *)
ToolKind(status) ==
    CASE status = 200 -> "Accepted"
      [] status = 400 -> "TooLow"
      [] status = 402 -> "NeedsNegotiation"
      [] OTHER -> "Failed"

(* Variant: the refund issuer without its look-up of an existing refund. *)
RefundIssuer_NoLookup(i, ok) ==
    IF ok
    THEN Append(refunds, [supersededBidId |-> i,
                          recipient |-> bidRecord.bidHistory[i].agentId,
                          amount |-> bidRecord.bidHistory[i].amount])
    ELSE refunds

(* Variant: the refund record written whatever the gateway answers. *)
RefundIssuer_RecordAnyway(i, ok) ==
    IF \E n \in 1..Len(refunds) : refunds[n].supersededBidId = i THEN refunds
    ELSE Append(refunds, [supersededBidId |-> i,
                          recipient |-> bidRecord.bidHistory[i].agentId,
                          amount |-> bidRecord.bidHistory[i].amount])

(* The refund issuer on bid record i; ok: the payment gateway succeeds.  A bid
   that already has a refund record gets no second one. *)
RefundIssuer(i, ok) ==
    IF \E n \in 1..Len(refunds) : refunds[n].supersededBidId = i THEN refunds
    ELSE IF ok
    THEN Append(refunds, [supersededBidId |-> i,
                          recipient |-> bidRecord.bidHistory[i].agentId,
                          amount |-> bidRecord.bidHistory[i].amount])
    ELSE refunds

(* Variant: the over-budget proposal is reported to the model and sent to the
   ledger all the same. *)
PlaceBid_SendAnyway(a, p) ==
    /\ pending[a] = NoRequest
    /\ returns + Cardinality(InFlight) < MaxAttempts
    /\ pending' = [pending EXCEPT ![a] = [amount |-> p, seen |-> bidRecord.currentBid]]
    /\ IF OverBudget(a, p)
       THEN /\ toolResult' = [agentId |-> a, proposedAmount |-> p,
                              kind |-> "OverBudget", status |-> 0,
                              maxAllowedBid |-> maxAllowedBid(a),
                              totalBudget |-> MaxBidOf[a], currentBid |-> 0,
                              minimumRequired |-> 0]
            /\ attempts' = Append(attempts, toolResult')
            /\ returns' = returns + 1
       ELSE UNCHANGED <<toolResult, attempts, returns>>
    /\ UNCHANGED <<bidRecord, bases, scheduled, refunds, lastBidAmount,
                   refundFailures, agentVars, pollVars, payVars, genVars, chatVars>>

(* place_bid is invoked: an over-budget proposal is answered on the spot, any
   other is sent to the ledger. *)
PlaceBid(a, p) ==
    /\ pending[a] = NoRequest
    /\ returns + Cardinality(InFlight) < MaxAttempts
    /\ IF OverBudget(a, p)
       THEN /\ toolResult' = [agentId |-> a, proposedAmount |-> p,
                              kind |-> "OverBudget", status |-> 0,
                              maxAllowedBid |-> maxAllowedBid(a),
                              totalBudget |-> MaxBidOf[a], currentBid |-> 0,
                              minimumRequired |-> 0]
            /\ attempts' = Append(attempts, toolResult')
            /\ returns' = returns + 1
            /\ UNCHANGED pending
       ELSE /\ pending' = [pending EXCEPT ![a] =
                              [amount |-> p, seen |-> bidRecord.currentBid]]
            /\ UNCHANGED <<toolResult, attempts, returns>>
    /\ UNCHANGED <<bidRecord, bases, scheduled, refunds, lastBidAmount,
                   refundFailures, agentVars, pollVars, payVars, genVars, chatVars>>

minimumIncrement == 1   \* the ledger's configured increment, in cents

(* The negotiation object of a TooLow response. *)
Negotiation(p, against) ==
    [yourProposal |-> p, currentBid |-> against,
     minimumToWin |-> against + minimumIncrement]

(* x || null, null being written as NullBid. *)
OrNull(x) == IF x = 0 THEN NullBid ELSE x

(* Variant: the current bid handed on as the minimum required. *)
proposalRejected_NoMinimum(neg) ==
    [yourProposal |-> OrNull(neg.yourProposal),
     minimumRequired |-> OrNull(neg.currentBid),
     currentBid |-> OrNull(neg.currentBid)]

(* What placeBidTool hands to the model for a 400 response. *)
proposalRejected(neg) ==
    [yourProposal |-> OrNull(neg.yourProposal),
     minimumRequired |-> OrNull(neg.minimumToWin),
     currentBid |-> OrNull(neg.currentBid)]

(* The ledger negotiates the request of agent a in one atomic operation, and
   placeBidTool returns what the response says. *)
Negotiate(a) ==
    /\ pending[a] # NoRequest
    /\ LET p == pending[a].amount
           against == ValidatedAgainst(a)
           verdict == NegotiationProtocol(bidRecord.auctionEnded, against, p)
           last == Len(bidRecord.bidHistory)
           neg == Negotiation(p, against)
       IN
       /\ IF verdict = "Accepted"
          THEN /\ bidRecord' = [bidRecord EXCEPT
                                   !.exists = TRUE,
                                   !.auctionStartTime = IF bidRecord.exists THEN @ ELSE now,
                                   !.currentBid = p,
                                   !.currentWinner = a,
                                   !.bidHistory = Append(@, [agentId |-> a, amount |-> p])]
               /\ bases' = Append(bases, against)
               /\ scheduled' = IF bidRecord.currentWinner \notin {"none", a}
                               THEN scheduled \cup {last} ELSE scheduled
               /\ lastBidAmount' = [lastBidAmount EXCEPT ![a] = bidRecord'.currentBid]
          ELSE /\ bidRecord' = [bidRecord EXCEPT
                                   !.exists = TRUE,
                                   !.auctionStartTime = IF bidRecord.exists THEN @ ELSE now]
               /\ UNCHANGED <<bases, scheduled, lastBidAmount>>
       /\ toolResult' = [agentId |-> a, proposedAmount |-> p,
                         kind |-> ToolKind(StatusOf(verdict)),
                         status |-> StatusOf(verdict),
                         maxAllowedBid |-> 0, totalBudget |-> 0,
                         currentBid |-> IF verdict = "TooLow"
                                        THEN proposalRejected(neg).currentBid
                                        ELSE bidRecord'.currentBid,
                         minimumRequired |-> IF verdict = "TooLow"
                                             THEN proposalRejected(neg).minimumRequired
                                             ELSE 0]
    /\ attempts' = Append(attempts, toolResult')
    /\ pending' = [pending EXCEPT ![a] = NoRequest]
    /\ returns' = returns + 1
    /\ UNCHANGED <<refunds, refundFailures, agentVars, pollVars, payVars, genVars, chatVars>>

(* The deadline expires, or the auction is closed explicitly. *)
Close ==
    /\ bidRecord.exists
    /\ ~bidRecord.auctionEnded
    /\ bidRecord' = [bidRecord EXCEPT !.auctionEnded = TRUE]
    /\ UNCHANGED <<bases, scheduled, refunds, pending, lastBidAmount, toolResult,
                   attempts, refundFailures, returns, agentVars, pollVars, payVars, genVars, chatVars>>

(* The refund issuer runs for a scheduled bid record: the first time, after a
   gateway failure, or once more after it has succeeded. *)
IssueRefund(i, ok) ==
    /\ i \in scheduled
    /\ refunds' = RefundIssuer(i, ok)
    /\ refundFailures' =
          IF ~ok /\ (\A n \in 1..Len(refunds) : refunds[n].supersededBidId # i)
          THEN refundFailures \cup {i} ELSE refundFailures
    /\ UNCHANGED <<bidRecord, bases, scheduled, pending, lastBidAmount, toolResult,
                   attempts, returns, agentVars, pollVars, payVars, genVars, chatVars>>

LedgerNext ==
    \/ \E a \in Agents : \E p \in Proposals : PlaceBid(a, p)
    \/ \E a \in Agents : Negotiate(a)
    \/ Close
    \/ \E i \in scheduled : \E ok \in BOOLEAN : IssueRefund(i, ok)

(* Variant: the status names the first bidder as the winner. *)
StatusGET_FirstBidder ==
    [currentBid |-> bidRecord.currentBid,
     currentWinner |-> IF bidRecord.bidHistory = <<>> THEN "none"
                       ELSE bidRecord.bidHistory[1].agentId,
     auctionEnded |-> bidRecord.auctionEnded,
     bidHistory |-> bidRecord.bidHistory]

(* GET /api/status: what the ledger reports of the record. *)
StatusGET ==
    IF ~bidRecord.exists
    THEN [currentBid |-> NullBid, currentWinner |-> "none", auctionEnded |-> FALSE,
          bidHistory |-> <<>>]
    ELSE [currentBid |-> bidRecord.currentBid,
          currentWinner |-> bidRecord.currentWinner,
          auctionEnded |-> bidRecord.auctionEnded,
          bidHistory |-> [n \in 1..Len(bidRecord.bidHistory) |->
                            [agentId |-> bidRecord.bidHistory[n].agentId,
                             amount |-> bidRecord.bidHistory[n].amount]]]

(* GET /api/status for demo-spot-1: the fixed answer. *)
DemoStatus ==
    [currentBid |-> 125, currentWinner |-> "IceCo", auctionEnded |-> FALSE,
     bidHistory |-> <<[agentId |-> "IceCo", amount |-> 50],
                      [agentId |-> "FizzUp", amount |-> 75],
                      [agentId |-> "IceCo", amount |-> 125]>>]

(***************************************************************************)
(* The auction page (pollEvents, processEvent) and the events route        *)
(***************************************************************************)

MaxTime == 5        \* seconds the clock runs
MaxEvents == 2      \* events stored for the ad spot
MaxPolls == 2       \* pollEvents calls started
MaxInFlight == 2    \* pollEvents calls in flight at once

DemoWindow == 60    \* the demo starts 60000 ms before now
PollInterval == 2   \* setInterval(pollEvents, 2000)

DemoSpot == "demo-spot-1"
LiveSpot == "spot-1"

NoWatermark == [set |-> FALSE, t |-> 0]     \* lastFetched: null

Ev(i, ty, ag, w, am, at, tx) ==
    [id |-> i, type |-> ty, agentId |-> ag, winner |-> w, amount |-> am,
     timestamp |-> at, transactionHash |-> tx]

(* allDemoEvents; the timestamp field holds the offset from startTime, in
   seconds. *)
DemoEvents ==
    << Ev(101, "agent_started", "IceCo", "", 0, 1, ""),
       Ev(102, "agent_started", "FizzUp", "", 0, 2, ""),
       Ev(103, "scraping_started", "IceCo", "", 0, 5, ""),
       Ev(104, "scraping_completed", "IceCo", "", 0, 8, ""),
       Ev(105, "analytics_payment", "IceCo", "", 1, 10, ""),
       Ev(106, "analytics_received", "IceCo", "", 0, 12, ""),
       Ev(107, "analysis_started", "IceCo", "", 0, 14, ""),
       Ev(108, "analysis_completed", "IceCo", "", 0, 18, ""),
       Ev(109, "thinking", "IceCo", "", 50, 20, ""),
       Ev(110, "bid_placed", "IceCo", "", 50, 22, "0xa"),
       Ev(111, "reflection", "IceCo", "", 0, 24, ""),
       Ev(112, "thinking", "FizzUp", "", 75, 27, ""),
       Ev(113, "bid_placed", "FizzUp", "", 75, 30, "0xb"),
       Ev(114, "refund", "IceCo", "", 50, 31, "0xc"),
       Ev(115, "reflection", "FizzUp", "", 0, 33, ""),
       Ev(116, "thinking", "IceCo", "", 125, 36, ""),
       Ev(117, "bid_placed", "IceCo", "", 125, 39, "0xd"),
       Ev(118, "refund", "FizzUp", "", 75, 40, "0xe"),
       Ev(119, "withdrawal", "FizzUp", "", 75, 43, "0xf"),
       Ev(120, "auction_ended", "", "IceCo", 125, 45, ""),
       Ev(121, "image_generation_update", "IceCo", "", 0, 50, ""),
       Ev(122, "ad_image_ready", "", "IceCo", 0, 52, "") >>

EventIds == (1..MaxEvents) \cup {DemoEvents[n].id : n \in 1..Len(DemoEvents)}

NoFetch == [read |-> FALSE, spot |-> "", since |-> NoWatermark, events |-> <<>>]

IdlePoll == [pc |-> "idle", since |-> NoWatermark, success |-> FALSE,
             events |-> <<>>, timestamp |-> 0]

PollSlots == 1..MaxInFlight

PollInit ==
    /\ now = 0
    /\ store = <<>>
    /\ adSpotId = "none"
    /\ isPolling = FALSE
    /\ lastFetched = NoWatermark
    /\ seenEventIds = {}
    /\ messages = <<>>
    /\ currentBid = NullBid
    /\ polls = [k \in PollSlots |-> IdlePoll]
    /\ polled = 0
    /\ pollDue = 0
    /\ delivered = [e \in EventIds |-> 0]
    /\ fetched = NoFetch
    /\ loadPending = FALSE

(* Variant: the filter drops only the events older than since. *)
getDemoEvents_Inclusive(since) ==
    LET startTime == now - DemoWindow
        allDemoEvents == [n \in 1..Len(DemoEvents) |->
                            [DemoEvents[n] EXCEPT !.timestamp = startTime + @]]
        Keep(event) ==
            IF since.set /\ event.timestamp < since.t THEN FALSE
            ELSE event.timestamp <= now
    IN SelectSeq(allDemoEvents, Keep)

(* getDemoEvents(since): the demo events, stamped relative to the moment of the
   call, that are newer than since and not in the future. *)
getDemoEvents(since) ==
    LET startTime == now - DemoWindow
        allDemoEvents == [n \in 1..Len(DemoEvents) |->
                            [DemoEvents[n] EXCEPT !.timestamp = startTime + @]]
        Keep(event) ==
            IF since.set /\ event.timestamp <= since.t THEN FALSE
            ELSE event.timestamp <= now
    IN SelectSeq(allDemoEvents, Keep)

(* getStoredEvents(adSpotId, since): the stored events newer than since,
   ascending by timestamp. *)
getStoredEvents(since) ==
    LET Newer(event) == ~since.set \/ event.timestamp > since.t
    IN SortSeq(SelectSeq(store, Newer), LAMBDA a, b : a.timestamp < b.timestamp)

(* The key processEvent deduplicates by: type, agentId or 'system', timestamp,
   and the transaction hash or, without one, Date.now(). *)
eventId(data) ==
    [type |-> data.type,
     agentId |-> IF data.agentId # "" THEN data.agentId ELSE "system",
     timestamp |-> data.timestamp,
     transactionHash |-> data.transactionHash,
     dateNow |-> IF data.transactionHash # "" THEN 0 ELSE now]

Message(ty, ag, data, loading) ==
    [type |-> ty, agentId |-> ag, timestamp |-> data.timestamp,
     amount |-> data.amount, transactionHash |-> data.transactionHash,
     isLoading |-> loading]

(* processEvent(data) on the page state page = [seenEventIds, messages,
   currentBid]. *)
processEvent(page, data) ==
    IF eventId(data) \in page.seenEventIds THEN page
    ELSE
    LET seen == [page EXCEPT !.seenEventIds = @ \cup {eventId(data)}]
        bidExists == \E n \in 1..Len(page.messages) :
                        /\ page.messages[n].type = "bid"
                        /\ page.messages[n].agentId = data.agentId
                        /\ page.messages[n].transactionHash = data.transactionHash
    IN
    CASE data.type = "bid_placed" ->
            [seen EXCEPT
                !.messages = IF bidExists THEN @
                             ELSE Append(@, Message("bid", data.agentId, data, TRUE)),
                !.currentBid = data.amount]
      [] data.type = "reflection" ->
            [seen EXCEPT
                !.messages = [n \in 1..Len(@) |->
                                IF /\ @[n].type = "bid"
                                   /\ @[n].agentId = data.agentId
                                   /\ @[n].isLoading
                                THEN [@[n] EXCEPT !.isLoading = FALSE]
                                ELSE @[n]]]
      [] data.type \in {"thinking", "refund", "withdrawal", "auction_ended",
                        "image_generation_update"} ->
            [seen EXCEPT
                !.messages = Append(@, Message(data.type, data.agentId, data, FALSE))]
      [] data.type = "ad_image_ready" ->
            [seen EXCEPT
                !.messages = Append(@, Message(data.type, data.winner, data, FALSE))]
      [] OTHER -> seen

(* getBrandName: the terminal an agent id belongs to. *)
getBrandName(agentId) ==
    CASE agentId \in {"IceCo", "AgentA"} -> "IceCo"
      [] agentId \in {"FizzUp", "AgentB"} -> "FizzUp"
      [] OTHER -> agentId

(* The split of the timeline into the two terminals: the positions of the
   messages whose logs are pushed to the terminal of brand. *)
TerminalOf(brand, msgs) ==
    {n \in 1..Len(msgs) :
        getBrandName(msgs[n].agentId) = brand \/ msgs[n].type = "auction_ended"}

(* result.events.forEach(processEvent) *)
RECURSIVE forEach(_, _)
forEach(page, events) ==
    IF events = <<>> THEN page
    ELSE forEach(processEvent(page, Head(events)), Tail(events))

FreePolls == {k \in PollSlots : polls[k].pc = "idle"}

(* The page mounts for an ad spot: the effect sets up its state and the polling
   interval. *)
Mount(spot) ==
    /\ adSpotId = "none"
    /\ adSpotId' = spot
    /\ isPolling' = TRUE
    /\ pollDue' = now + PollInterval
    /\ UNCHANGED <<now, store, lastFetched, seenEventIds, messages, currentBid, polls,
                   polled, delivered, fetched, agentVars, ledgerVars, payVars, genVars, chatVars>>
    /\ loadPending' = TRUE

(* The effect's cleanup: isPolling = false, clearInterval. *)
Unmount ==
    /\ isPolling
    /\ isPolling' = FALSE
    /\ UNCHANGED <<now, store, adSpotId, lastFetched, seenEventIds, messages,
                   currentBid, polls, polled, pollDue, delivered, fetched, agentVars,
                   ledgerVars, payVars, genVars, chatVars>>
    /\ UNCHANGED loadPending

(* A second passes. *)
Tick ==
    /\ now < MaxTime
    /\ now' = now + 1
    /\ UNCHANGED <<store, adSpotId, isPolling, lastFetched, seenEventIds, messages,
                   currentBid, polls, polled, pollDue, delivered, fetched, agentVars,
                   ledgerVars, payVars, genVars, chatVars>>
    /\ UNCHANGED loadPending

(* An event of the ad spot is stored; the timestamp its producer gave it is the
   current second or the one before. *)
StoreEvent(ty, t) ==
    /\ Len(store) < MaxEvents
    /\ store' = Append(store,
                   Ev(Len(store) + 1, ty, "IceCo", "", 50 * (Len(store) + 1), t,
                      IF ty = "bid_placed" THEN <<"0x1", "0x2">>[Len(store) + 1] ELSE ""))
    /\ UNCHANGED <<now, adSpotId, isPolling, lastFetched, seenEventIds, messages,
                   currentBid, polls, polled, pollDue, delivered, fetched, agentVars,
                   ledgerVars, payVars, genVars, chatVars>>
    /\ UNCHANGED loadPending

(* The interval fires: pollEvents sends its request with the watermark it reads
   now. *)
PollFire ==
    /\ isPolling
    /\ now >= pollDue
    /\ polled < MaxPolls
    /\ FreePolls # {}
    /\ polls' = [polls EXCEPT ![Min(FreePolls)] =
                    [IdlePoll EXCEPT !.pc = "sent", !.since = lastFetched]]
    /\ polled' = polled + 1
    /\ pollDue' = now + PollInterval
    /\ UNCHANGED <<now, store, adSpotId, isPolling, lastFetched, seenEventIds,
                   messages, currentBid, delivered, fetched, agentVars, ledgerVars, payVars, genVars, chatVars>>
    /\ UNCHANGED loadPending

(* GET for demo-spot-1: the demo events and the time of the response. *)
ServeDemo(k) ==
    /\ polls[k].pc = "sent"
    /\ adSpotId = DemoSpot
    /\ polls' = [polls EXCEPT ![k] =
                    [@ EXCEPT !.pc = "served", !.success = TRUE,
                              !.events = getDemoEvents(polls[k].since),
                              !.timestamp = now]]
    /\ UNCHANGED <<now, store, adSpotId, isPolling, lastFetched, seenEventIds,
                   messages, currentBid, polled, pollDue, delivered, fetched, agentVars,
                   ledgerVars, payVars, genVars, chatVars>>
    /\ UNCHANGED loadPending

(* GET for any other spot, up to the store's answer; ok: the query succeeds. *)
ServeQuery(k, ok) ==
    /\ polls[k].pc = "sent"
    /\ adSpotId = LiveSpot
    /\ polls' = [polls EXCEPT ![k] =
                    [@ EXCEPT !.pc = "queried", !.success = ok,
                              !.events = IF ok THEN getStoredEvents(polls[k].since)
                                         ELSE <<>>]]
    /\ UNCHANGED <<now, store, adSpotId, isPolling, lastFetched, seenEventIds,
                   messages, currentBid, polled, pollDue, delivered, fetched, agentVars,
                   ledgerVars, payVars, genVars, chatVars>>
    /\ UNCHANGED loadPending

(* The response is built: it carries the time of this moment. *)
ServeRespond(k) ==
    /\ polls[k].pc = "queried"
    /\ polls' = [polls EXCEPT ![k] = [@ EXCEPT !.pc = "served", !.timestamp = now]]
    /\ UNCHANGED <<now, store, adSpotId, isPolling, lastFetched, seenEventIds,
                   messages, currentBid, polled, pollDue, delivered, fetched, agentVars,
                   ledgerVars, payVars, genVars, chatVars>>
    /\ UNCHANGED loadPending

(* Variant: pollEvents takes every response that arrived, whatever its success
   flag says. *)
PollReceive_Unchecked(k, arrived) ==
    /\ polls[k].pc = "served"
    /\ polls' = [polls EXCEPT ![k] = IdlePoll]
    /\ IF arrived
       THEN LET page == forEach([seenEventIds |-> seenEventIds, messages |-> messages,
                                 currentBid |-> currentBid], polls[k].events)
                got == {polls[k].events[n].id : n \in 1..Len(polls[k].events)}
            IN /\ seenEventIds' = page.seenEventIds
               /\ messages' = page.messages
               /\ currentBid' = page.currentBid
               /\ lastFetched' = [set |-> TRUE, t |-> polls[k].timestamp]
               /\ delivered' = [e \in EventIds |->
                                  IF e \in got THEN delivered[e] + 1 ELSE delivered[e]]
               /\ UNCHANGED fetched
       ELSE UNCHANGED <<seenEventIds, messages, currentBid, lastFetched, delivered, fetched>>
    /\ UNCHANGED <<now, store, adSpotId, isPolling, polled, pollDue, agentVars,
                   ledgerVars, payVars, genVars, chatVars>>
    /\ UNCHANGED loadPending

(* pollEvents resumes with the response: on success it processes the events and
   moves the watermark to the response's timestamp; arrived: the fetch did not
   throw. *)
PollReceive(k, arrived) ==
    /\ polls[k].pc = "served"
    /\ polls' = [polls EXCEPT ![k] = IdlePoll]
    /\ IF arrived /\ polls[k].success
       THEN LET page == forEach([seenEventIds |-> seenEventIds, messages |-> messages,
                                 currentBid |-> currentBid], polls[k].events)
                got == {polls[k].events[n].id : n \in 1..Len(polls[k].events)}
            IN /\ seenEventIds' = page.seenEventIds
               /\ messages' = page.messages
               /\ currentBid' = page.currentBid
               /\ lastFetched' = [set |-> TRUE, t |-> polls[k].timestamp]
               /\ delivered' = [e \in EventIds |->
                                  IF e \in got THEN delivered[e] + 1 ELSE delivered[e]]
               /\ UNCHANGED fetched
       ELSE UNCHANGED <<seenEventIds, messages, currentBid, lastFetched, delivered, fetched>>
    /\ UNCHANGED <<now, store, adSpotId, isPolling, polled, pollDue, agentVars,
                   ledgerVars, payVars, genVars, chatVars>>
    /\ UNCHANGED loadPending

(* The bid history GET /api/status answers for the ad spot: the fixed three
   bids of the demo, and for a live spot the bids placed so far. *)
StatusHistory ==
    IF adSpotId = DemoSpot
    THEN << [agentId |-> "IceCo", amount |-> 50, timestamp |-> now - 40, txHash |-> "0xa",
             reflection |-> TRUE],
            [agentId |-> "FizzUp", amount |-> 75, timestamp |-> now - 30, txHash |-> "0xb",
             reflection |-> TRUE],
            [agentId |-> "IceCo", amount |-> 125, timestamp |-> now - 20, txHash |-> "0xd",
             reflection |-> TRUE] >>
    ELSE LET bids == SelectSeq(store, LAMBDA e : e.type = "bid_placed")
         IN [n \in 1..Len(bids) |->
                [agentId |-> bids[n].agentId, amount |-> bids[n].amount,
                 timestamp |-> bids[n].timestamp, txHash |-> bids[n].transactionHash,
                 reflection |-> FALSE]]

(* setMessages(historicalMessages): the timeline becomes the bid history. *)
historicalMessages(bidHistory) ==
    [n \in 1..Len(bidHistory) |->
        [type |-> "bid", agentId |-> bidHistory[n].agentId,
         timestamp |-> bidHistory[n].timestamp, amount |-> bidHistory[n].amount,
         transactionHash |-> bidHistory[n].txHash,
         isLoading |-> ~bidHistory[n].reflection]]

(* loadInitialState resumes: with the status (ok) it sets currentBid and the
   timeline, with a failed fetch it only logs. *)
LoadInitialState(ok) ==
    /\ loadPending
    /\ loadPending' = FALSE
    /\ IF ok
       THEN /\ currentBid' = IF StatusHistory = <<>> THEN NullBid
                             ELSE StatusHistory[Len(StatusHistory)].amount
            /\ messages' = historicalMessages(StatusHistory)
       ELSE UNCHANGED <<currentBid, messages>>
    /\ UNCHANGED <<now, store, adSpotId, isPolling, lastFetched, seenEventIds, polls,
                   polled, pollDue, delivered, fetched, agentVars, ledgerVars, payVars,
                   genVars, chatVars>>

(***************************************************************************)
(* The status query against the clock                                      *)
(***************************************************************************)
AUCTION_DURATION_MS == 3000   \* the auction's length, in milliseconds
SubSecond == {0, 500}         \* the milliseconds of Date.now() past the full second

(* Math.max(0, x) *)
AtLeastZero(x) == IF x < 0 THEN 0 ELSE x

(* timeRemaining as GET /api/status computes it ms milliseconds into the
   second: the whole seconds up to auctionEndTime, and never less than 0. *)
timeRemaining(ms) ==
    LET auctionEndTime == bidRecord.auctionStartTime * 1000 + AUCTION_DURATION_MS
    IN AtLeastZero((auctionEndTime - (now * 1000 + ms)) \div 1000)

(* The deadline has expired and the ledger marks the auction as ended. *)
Expire ==
    /\ bidRecord.exists
    /\ ~bidRecord.auctionEnded
    /\ now * 1000 >= bidRecord.auctionStartTime * 1000 + AUCTION_DURATION_MS
    /\ bidRecord' = [bidRecord EXCEPT !.auctionEnded = TRUE]
    /\ UNCHANGED <<bases, scheduled, refunds, pending, lastBidAmount, toolResult,
                   attempts, refundFailures, returns, agentVars, pollVars, payVars,
                   genVars, chatVars>>

StatusNext ==
    \/ Tick
    \/ \E a \in Agents : \E p \in {50, 75} : PlaceBid(a, p)
    \/ \E a \in Agents : Negotiate(a)
    \/ Close
    \/ Expire

(***************************************************************************)
(* The page's timeline under events of any kind and order                  *)
(***************************************************************************)
MaxDeliveries == 4        \* events processed in one behaviour

(* Bids and reflections of the two agents as the events route delivers them. *)
TimelineEvents ==
    {Ev(0, "bid_placed", a, "", 50, t, h) : a \in Agents, t \in 1..2, h \in {"0x1", "0x2"}}
        \cup {Ev(0, "reflection", a, "", 0, t, "") : a \in Agents, t \in 1..2}

(* One call of processEvent(data). *)
ProcessOne(data) ==
    /\ Cardinality(seenEventIds) < MaxDeliveries
    /\ LET page == processEvent([seenEventIds |-> seenEventIds, messages |-> messages,
                                 currentBid |-> currentBid], data)
       IN /\ seenEventIds' = page.seenEventIds
          /\ messages' = page.messages
          /\ currentBid' = page.currentBid
    /\ UNCHANGED <<now, store, adSpotId, isPolling, lastFetched, polls, polled, pollDue,
                   delivered, fetched, agentVars, ledgerVars, payVars, genVars, chatVars>>
    /\ UNCHANGED loadPending

TimelineNext == \E data \in TimelineEvents : ProcessOne(data)

PollNext ==
    \/ \E spot \in {DemoSpot, LiveSpot} : Mount(spot)
    \/ Unmount
    \/ Tick
    \/ \E ty \in {"bid_placed", "thinking"} : \E t \in {now - 1, now} : StoreEvent(ty, t)
    \/ PollFire
    \/ \E k \in PollSlots : ServeDemo(k)
    \/ \E k \in PollSlots : \E ok \in BOOLEAN : ServeQuery(k, ok)
    \/ \E k \in PollSlots : ServeRespond(k)
    \/ \E k \in PollSlots : \E arrived \in BOOLEAN : PollReceive(k, arrived)

(* The page from its mount on, with the history load and the polls in either
   order. *)
LoadNext ==
    \/ \E spot \in {DemoSpot, LiveSpot} : Mount(spot)
    \/ Tick
    \/ \E t \in {now - 1, now} : StoreEvent("bid_placed", t)
    \/ PollFire
    \/ \E k \in PollSlots : ServeDemo(k)
    \/ \E k \in PollSlots : ServeQuery(k, TRUE)
    \/ \E k \in PollSlots : ServeRespond(k)
    \/ \E k \in PollSlots : PollReceive(k, TRUE)
    \/ \E ok \in BOOLEAN : LoadInitialState(ok)

(***************************************************************************)
(* Any client of the events route: requests with a since of its choosing   *)
(***************************************************************************)

SinceBack == 9      \* how many seconds before now a requested since may lie

(* GET /api/events/<spot>[?since=...] is requested. *)
Request(spot, since) ==
    /\ ~isPolling
    /\ \A k \in PollSlots : polls[k].pc = "idle"
    /\ adSpotId' = spot
    /\ polls' = [polls EXCEPT ![1] = [IdlePoll EXCEPT !.pc = "sent", !.since = since]]
    /\ UNCHANGED <<now, store, isPolling, lastFetched, seenEventIds, messages,
                   currentBid, polled, pollDue, delivered, fetched, agentVars, ledgerVars, payVars, genVars, chatVars>>
    /\ UNCHANGED loadPending

(* The client has read the response. *)
Drop(k) ==
    /\ ~isPolling
    /\ polls[k].pc = "served"
    /\ polls' = [polls EXCEPT ![k] = IdlePoll]
    /\ fetched' = IF ~fetched.read /\ polls[k].success /\ ~polls[k].since.set
                  THEN [read |-> TRUE, spot |-> adSpotId, since |-> polls[k].since,
                        events |-> polls[k].events]
                  ELSE fetched
    /\ UNCHANGED <<now, store, adSpotId, isPolling, lastFetched, seenEventIds,
                   messages, currentBid, polled, pollDue, delivered, agentVars,
                   ledgerVars, payVars, genVars, chatVars>>
    /\ UNCHANGED loadPending

FetchNext ==
    \/ Tick
    \/ \E ty \in {"bid_placed", "thinking"} : \E t \in {now - 1, now} : StoreEvent(ty, t)
    \/ \E spot \in {DemoSpot, LiveSpot} : Request(spot, NoWatermark)
    \/ \E spot \in {DemoSpot, LiveSpot} : \E t \in (now - SinceBack)..now :
          Request(spot, [set |-> TRUE, t |-> t])
    \/ \E k \in PollSlots : ServeDemo(k)
    \/ \E k \in PollSlots : \E ok \in BOOLEAN : ServeQuery(k, ok)
    \/ \E k \in PollSlots : ServeRespond(k)
    \/ \E k \in PollSlots : Drop(k)

(***************************************************************************)
(* processEventPayment                                                     *)
(***************************************************************************)

MaxPayments == 2          \* payments executed in one behaviour
SAFETY_THRESHOLD == 1000  \* the hard cap for a single event, in cents

PayMaxBids == {500, 1200}
PayBalances == {0, 100, 1000, 10000}
PayAmounts == {0, 200, 250, 500, 600, 1000, 1001, 1100, 1500}

NoPayment == [called |-> FALSE, bidAmount |-> 0, currentBalance |-> 0,
              success |-> FALSE, message |-> "none", txHash |-> FALSE]

PayInit ==
    /\ maxBid = 500
    /\ payResult = NoPayment
    /\ settled = 0

Blocked(msg) == [success |-> FALSE, message |-> msg, txHash |-> FALSE]

(* Variant: the checks without the look at the balance. *)
processEventPayment_NoBalance(cap, bidAmount, currentBalance) ==
    IF bidAmount > cap THEN Blocked("MaxBid")
    ELSE IF bidAmount > SAFETY_THRESHOLD THEN Blocked("SafetyThreshold")
    ELSE [success |-> TRUE, message |-> "Settled", txHash |-> TRUE]

(* What processEventPayment returns for an event of bidAmount, for an agent of
   maxBid cap whose balance reads currentBalance: the tests in the code's order. *)
processEventPayment(cap, bidAmount, currentBalance) ==
    IF bidAmount > cap THEN Blocked("MaxBid")
    ELSE IF bidAmount > SAFETY_THRESHOLD THEN Blocked("SafetyThreshold")
    ELSE IF currentBalance < bidAmount THEN Blocked("InsufficientFunds")
    ELSE [success |-> TRUE, message |-> "Settled", txHash |-> TRUE]

(* One call of processEventPayment; b is what getUSDCBalance answers when the
   call reaches it. *)
ProcessEvent(bidAmount, b) ==
    /\ settled < MaxPayments
    /\ LET r == processEventPayment(maxBid, bidAmount, b) IN
        /\ payResult' = [called |-> TRUE, bidAmount |-> bidAmount, currentBalance |-> b,
                         success |-> r.success, message |-> r.message,
                         txHash |-> r.txHash]
        /\ settled' = IF r.message = "Settled" THEN settled + 1 ELSE settled
    /\ UNCHANGED <<maxBid, agentVars, ledgerVars, pollVars, genVars, chatVars>>

PayNext == \E bidAmount \in PayAmounts : \E b \in getUSDCBalance : ProcessEvent(bidAmount, b)

(***************************************************************************)
(* The generate_ad_image tool: one task, then a bounded polling loop       *)
(***************************************************************************)
MaxPollAttempts == 40     \* the loop's bound: for (let i = 0; i < 40; i++)
ProgressEvery == 5        \* a progress post on every fifth pending poll

(* What GET /api/task-status can answer: the task's status with or without a
   generated image, or an error thrown by the request. *)
TaskStatuses == {"CREATED", "IN_PROGRESS", "COMPLETED", "FAILED", "failed", "ERROR", "error"}
FailedStatuses == {"FAILED", "failed", "ERROR", "error"}
PollAnswers == [throws : BOOLEAN, status : TaskStatuses, generated : 0..1]

NoPolls == [image |-> 0, failed |-> 0, thrown |-> 0]

GenInit ==
    /\ genPc = "idle"
    /\ genI = 0
    /\ genReturn = ""
    /\ broadcasts = {}
    /\ genSeen = NoPolls

(* A post to image-status inside its own try/catch: it arrives or it throws,
   and execute() goes on either way. *)
Broadcast(status) ==
    \E arrives \in BOOLEAN :
        broadcasts' = IF arrives THEN broadcasts \cup {status} ELSE broadcasts

(* What one answered poll means to the loop: the image is tested first, then
   the status. *)
Classify(a) ==
    IF a.generated > 0 THEN "SUCCESS"
    ELSE IF a.status \in FailedStatuses THEN "ERROR: failed"
    ELSE "pending"

(* Variant: a poll that throws is tried again under the same index. *)
AfterThrow_Retry(i) == i

(* The index after a poll that threw: the catch is inside the loop body, the
   for statement then increments. *)
AfterThrow(i) == i + 1

(* The polls' history: the number of the first poll with an image, of the
   first with a failed status, and how many polls threw. *)
Record(a) ==
    IF a.throws
    THEN [genSeen EXCEPT !.thrown = IF @ < MaxPollAttempts THEN @ + 1 ELSE @]
    ELSE [genSeen EXCEPT
            !.image = IF @ = 0 /\ a.generated > 0 THEN genI + 1 ELSE @,
            !.failed = IF @ = 0 /\ a.status \in FailedStatuses THEN genI + 1 ELSE @]

(* execute() is called: the "started" post. *)
GenExecute ==
    /\ genPc = "idle"
    /\ genPc' = "create"
    /\ Broadcast("started")
    /\ UNCHANGED <<genI, genReturn, genSeen, agentVars, ledgerVars, pollVars, payVars,
                   chatVars>>

(* POST /api/generate-ad-image: a task id and the "progress" post, or an error
   that the outer catch reports and returns. *)
GenCreate(created) ==
    /\ genPc = "create"
    /\ IF created
       THEN /\ genPc' = "loop"
            /\ genI' = 0
            /\ Broadcast("progress")
            /\ UNCHANGED genReturn
       ELSE /\ genPc' = "done"
            /\ genReturn' = "ERROR: thrown"
            /\ Broadcast("failed")
            /\ UNCHANGED genI
    /\ UNCHANGED <<genSeen, agentVars, ledgerVars, pollVars, payVars, chatVars>>

(* The loop test holds and the 3000 ms timer of the iteration fires. *)
GenWake ==
    /\ genPc = "loop"
    /\ genI < MaxPollAttempts
    /\ genPc' = "poll"
    /\ UNCHANGED <<genI, genReturn, broadcasts, genSeen, agentVars, ledgerVars, pollVars,
                   payVars, chatVars>>

(* The status poll of the iteration is answered with a. *)
GenPoll(a) ==
    /\ genPc = "poll"
    /\ genSeen' = Record(a)
    /\ IF a.throws
       THEN /\ genPc' = "loop"
            /\ genI' = AfterThrow(genI)
            /\ UNCHANGED <<genReturn, broadcasts>>
       ELSE IF Classify(a) = "SUCCESS"
       THEN /\ genPc' = "done"
            /\ genReturn' = "SUCCESS"
            /\ Broadcast("completed")
            /\ UNCHANGED genI
       ELSE IF Classify(a) = "ERROR: failed"
       THEN /\ genPc' = "done"
            /\ genReturn' = "ERROR: failed"
            /\ Broadcast("failed")
            /\ UNCHANGED genI
       ELSE /\ genPc' = "loop"
            /\ genI' = genI + 1
            /\ IF genI % ProgressEvery = 0 THEN Broadcast("progress")
                                           ELSE UNCHANGED broadcasts
            /\ UNCHANGED genReturn
    /\ UNCHANGED <<agentVars, ledgerVars, pollVars, payVars, chatVars>>

(* The loop test fails: the "failed" post and the Timeout return. *)
GenTimeout ==
    /\ genPc = "loop"
    /\ genI >= MaxPollAttempts
    /\ genPc' = "done"
    /\ genReturn' = "ERROR: Timeout"
    /\ Broadcast("failed")
    /\ UNCHANGED <<genI, genSeen, agentVars, ledgerVars, pollVars, payVars, chatVars>>

GenNext ==
    \/ GenExecute
    \/ \E created \in BOOLEAN : GenCreate(created)
    \/ GenWake
    \/ \E a \in PollAnswers : GenPoll(a)
    \/ GenTimeout

(***************************************************************************)
(* One generateText call of a decision cycle and its tool invocations      *)
(***************************************************************************)
maxSteps == 10            \* generateText({..., maxSteps: 10})
MaxCallsPerStep == 2      \* tool calls the model returns in one step

NetworkError == 0         \* a request that fails without a response

(* What the bid route, or the network, answers to a POST. *)
Answers == {200, 400, 402, 410, NetworkError}

NoCall == [requests |-> 0, answered |-> FALSE, status |-> NetworkError, result |-> "none"]

ChatInit ==
    /\ chatPc = "idle"
    /\ steps = 0
    /\ toolCalls = 0
    /\ invocations = 0
    /\ bidCall = NoCall

(* After a tool call of a step has run: the step's next call, or the next
   step, which generateText takes only below maxSteps. *)
AfterCall ==
    /\ toolCalls' = toolCalls - 1
    /\ chatPc' = IF toolCalls > 1 THEN "tools"
                 ELSE IF steps < maxSteps THEN "llm" ELSE "done"

(* decideBidStrategy calls generateText. *)
GenerateText ==
    /\ chatPc = "idle"
    /\ chatPc' = "llm"
    /\ UNCHANGED <<steps, toolCalls, invocations, bidCall, agentVars, ledgerVars,
                   pollVars, payVars, genVars>>

(* A step: the model answers with n tool calls, or with its final text. *)
ModelStep(n) ==
    /\ chatPc = "llm"
    /\ steps < maxSteps
    /\ steps' = steps + 1
    /\ toolCalls' = n
    /\ chatPc' = IF n = 0 THEN "done" ELSE "tools"
    /\ UNCHANGED <<invocations, bidCall, agentVars, ledgerVars, pollVars, payVars,
                   genVars>>

(* A tool other than place_bid is invoked and returns. *)
InvokeTool(t) ==
    /\ chatPc = "tools"
    /\ t \in createBiddingTools \ {"place_bid"}
    /\ invocations' = invocations + 1
    /\ AfterCall
    /\ UNCHANGED <<steps, bidCall, agentVars, ledgerVars, pollVars, payVars, genVars>>

(* place_bid is invoked: over the budget it returns at once, otherwise it
   posts the proposal. *)
InvokePlaceBid(over) ==
    /\ chatPc = "tools"
    /\ invocations' = invocations + 1
    /\ IF over
       THEN /\ bidCall' = [requests |-> 0, answered |-> TRUE, status |-> NetworkError,
                           result |-> "OverBudget"]
            /\ AfterCall
       ELSE /\ bidCall' = [NoCall EXCEPT !.requests = 1]
            /\ chatPc' = "post"
            /\ UNCHANGED toolCalls
    /\ UNCHANGED <<steps, agentVars, ledgerVars, pollVars, payVars, genVars>>

(* The post is answered.  The payment interceptor of the client pays on the
   first 402 and sends the request again; every other answer is what execute
   returns on. *)
PostAnswered(status) ==
    /\ chatPc = "post"
    /\ IF status = 402 /\ bidCall.requests = 1
       THEN /\ bidCall' = [bidCall EXCEPT !.requests = 2]
            /\ UNCHANGED <<chatPc, toolCalls>>
       ELSE /\ bidCall' = [bidCall EXCEPT !.answered = TRUE, !.status = status,
                                          !.result = ToolKind(status)]
            /\ AfterCall
    /\ UNCHANGED <<steps, invocations, agentVars, ledgerVars, pollVars, payVars, genVars>>

ChatNext ==
    \/ GenerateText
    \/ \E n \in 0..MaxCallsPerStep : ModelStep(n)
    \/ \E t \in createBiddingTools : InvokeTool(t)
    \/ \E over \in BOOLEAN : InvokePlaceBid(over)
    \/ \E status \in Answers : PostAnswered(status)

vars == <<agentVars, ledgerVars, pollVars, payVars, genVars, chatVars>>

Init == AgentInit /\ LedgerInit /\ PollInit /\ PayInit /\ GenInit /\ ChatInit

Spec == Init /\ [][Next]_vars

(* The coordinator's decision cycles and refund monitor, with one handle more
   than MaxIntervals for the intervals that exist at once. *)
MonitorInit ==
    /\ AgentFieldsWith(1..(MaxIntervals + 1))
    /\ balance = InitBalance
    /\ LedgerInit /\ PollInit /\ PayInit /\ GenInit /\ ChatInit

MonitorNext ==
    \/ Start
    \/ StartDecide
    \/ \E s \in TaskSlots : TaskGotBalance(s)
    \/ \E s \in TaskSlots : \E b \in getUSDCBalance : TaskMonitorInstalled(s, b)
    \/ \E s \in TaskSlots : \E a \in 1..balance : ChatPlaceBid(s, a)
    \/ \E s \in TaskSlots : ChatEnd(s, "done")
    \/ \E i \in Handles : TickFire(i)
    \/ \E k \in TickSlots : \E b \in getUSDCBalance : TickGotBalance(k, b)
    \/ \E k \in TickSlots : \E ok \in BOOLEAN : TickGotStatus(k, ok)
    \/ TimerFire
    \/ ImmediateFire
    \/ Stop
    \/ \E r \in 1..(InitBalance - balance) : EnvOutbid(r)

MonitorSpec == MonitorInit /\ [][MonitorNext]_vars

(* Bid negotiation and refunds. *)
LedgerSpec == Init /\ [][LedgerNext]_vars

(* The auction page and the events route. *)
PollSpec == Init /\ [][PollNext]_vars

(* The auction page with its history load. *)
LoadSpec == Init /\ [][LoadNext]_vars

(* The events route under requests of any client. *)
FetchSpec == Init /\ [][FetchNext]_vars

(* processEventPayment for agents of every configuration and wallet. *)
PayConfigured ==
    /\ AgentFields /\ LedgerInit /\ PollInit /\ GenInit /\ ChatInit
    /\ balance \in PayBalances
    /\ maxBid \in PayMaxBids
    /\ payResult = NoPayment
    /\ settled = 0

PaySpec == PayConfigured /\ [][PayNext]_vars

(* processEvent under bids and reflections in any order. *)
TimelineSpec == Init /\ [][TimelineNext]_vars

(* The ledger under the clock, as the status query sees it. *)
StatusSpec == Init /\ [][StatusNext]_vars

(* One generateText call of a decision cycle. *)
ChatSpec == Init /\ [][ChatNext]_vars

(* One call of the generate_ad_image tool. *)
GenSpec == Init /\ [][GenNext]_vars

(* The same call where every request is answered or throws, and every timer
   fires: a step of the call that can be taken is taken. *)
GenLive == GenSpec /\ WF_vars(GenNext)

(***************************************************************************)
(* C1: at most one decision task (one run of decideBidStrategy) is active  *)
(* per agent at any time.                                                  *)
(***************************************************************************)
C1_AtMostOneDecision == Cardinality(RunningTasks) <= 1

(***************************************************************************)
(* C2: no outbid signal is dropped.  While the coordinator is active, an   *)
(* outbid that no decision cycle has answered yet always has something     *)
(* left that can still answer it: a pending timer or requeue, a decision   *)
(* still running, a monitor callback in flight, or a live monitor whose    *)
(* baseline is still below the balance.                                    *)
(***************************************************************************)
WillReact ==
    \/ startPc # "done"
    \/ timers > 0
    \/ immediates > 0
    \/ RunningTasks # {}
    \/ \E k \in TickSlots : ticks[k].pc # "idle"
    \/ \E i \in Handles : intervals[i].live /\ intervals[i].previousBalance < balance

C2_NoOutbidSignalDropped == (isActive /\ unanswered) => WillReact

(***************************************************************************)
(* C3: when the refund monitor detects an outbid while isInAIReasoning is  *)
(* true, refundPending becomes true and no decision, timer or requeue is   *)
(* started; and when a decision task completes during whose run that       *)
(* happened (the agent still active), exactly one requeue is scheduled, no *)
(* timer, and refundPending is false again.                                *)
(***************************************************************************)
C3_RequeueOnceAfterDecision ==
    [][ /\ \A k \in TickSlots :
            (TickGotStatus(k, TRUE) /\ currentWinner # "self" /\ isInAIReasoning)
            => /\ refundPending'
               /\ Cardinality(RunningTasks') = Cardinality(RunningTasks)
               /\ timers' = timers
               /\ immediates' = immediates
        /\ \A s \in TaskSlots :
            (ChatEnd(s, "done") /\ tasks[s].saw /\ isActive)
            => /\ immediates' = immediates + 1
               /\ timers' = timers
               /\ ~refundPending'
      ]_vars

(***************************************************************************)
(* C4: over every sequence of bid attempts against one auction, currentBid *)
(* never decreases, and after every attempt it equals the amount of the    *)
(* last accepted record of bidHistory and currentWinner is that record's   *)
(* agent; both are null while no bid has been accepted.                    *)
(***************************************************************************)
LastAccepted(view) ==
    IF view.bidHistory = <<>>
    THEN view.currentBid = NullBid /\ view.currentWinner = "none"
    ELSE /\ view.currentBid = view.bidHistory[Len(view.bidHistory)].amount
         /\ view.currentWinner = view.bidHistory[Len(view.bidHistory)].agentId

C4_CurrentBidIsLastAccepted ==
    /\ LastAccepted(StatusGET)
    /\ LastAccepted(DemoStatus)
    /\ [][ /\ LastAccepted(StatusGET')
           /\ StatusGET'.bidHistory = bidRecord'.bidHistory
           /\ StatusGET'.currentBid >= StatusGET.currentBid ]_vars

C4_Witness ==
    /\ Len(bidRecord.bidHistory) = 2
    /\ toolResult.kind = "TooLow"
    /\ StatusGET.currentBid = 75
    /\ StatusGET.currentWinner = "FizzUp"

(***************************************************************************)
(* C5: a bid attempt of amount p is classified Accepted if and only if     *)
(* p > currentBid, p <= budgetCap and the auction has not ended; an        *)
(* Accepted attempt appends exactly one bid record and sets currentBid = p *)
(* and currentWinner to the bidder, any other attempt appends none.        *)
(***************************************************************************)
C5_AcceptedIff ==
    [][ returns' = returns + 1 =>
        LET a == toolResult'.agentId
            p == toolResult'.proposedAmount
        IN /\ (toolResult'.kind = "Accepted") <=>
                  /\ p > bidRecord.currentBid
                  /\ p <= MaxBidOf[a] - Reserve
                  /\ ~bidRecord.auctionEnded
           /\ toolResult'.kind = "Accepted" =>
                  /\ bidRecord'.bidHistory =
                        Append(bidRecord.bidHistory, [agentId |-> a, amount |-> p])
                  /\ bidRecord'.currentBid = p
                  /\ bidRecord'.currentWinner = a
                  /\ lastBidAmount'[a] = p
           /\ toolResult'.kind # "Accepted" =>
                  /\ bidRecord'.bidHistory = bidRecord.bidHistory
                  /\ bidRecord'.currentBid = bidRecord.currentBid
                  /\ bidRecord'.currentWinner = bidRecord.currentWinner
      ]_vars

C5_Witness ==
    /\ toolResult.kind = "Accepted"
    /\ toolResult.proposedAmount = MaxBidOf[toolResult.agentId] - Reserve
    /\ Len(bidRecord.bidHistory) = 2

(***************************************************************************)
(* C6: negotiation is atomic per auction: no two accepted bids are         *)
(* validated against the same value of currentBid, so the amounts of the   *)
(* accepted history are strictly increasing and currentBid is the maximum  *)
(* accepted amount.                                                        *)
(***************************************************************************)
C6_AtomicNegotiation ==
    LET h == bidRecord.bidHistory IN
    /\ Len(bases) = Len(h)
    /\ \A i, j \in 1..Len(bases) : i # j => bases[i] # bases[j]
    /\ \A i, j \in 1..Len(h) : i < j => h[i].amount < h[j].amount
    /\ \A i \in 1..Len(h) : h[i].amount <= bidRecord.currentBid
    /\ h # <<>> => \E i \in 1..Len(h) : h[i].amount = bidRecord.currentBid

C6_Witness ==
    /\ Len(bidRecord.bidHistory) = 2
    /\ \E a \in Agents : /\ pending[a] # NoRequest
                         /\ pending[a].seen < bases[2]
                         /\ pending[a].amount > bidRecord.currentBid

(***************************************************************************)
(* C7: refund records correspond one-to-one to the bids that a different   *)
(* agent's accepted bid superseded: such a bid has at most one refund      *)
(* record, to its bidder and of its amount, and stays with the refund      *)
(* issuer until it has one; a bid raised by its own bidder has none; and   *)
(* running the refund issuer again for a bid adds no second record.        *)
(***************************************************************************)
Superseded(h) == {i \in 1..(Len(h) - 1) : h[i + 1].agentId # h[i].agentId}

Refunded == {refunds[n].supersededBidId : n \in 1..Len(refunds)}

OfType(ty) == SelectSeq(DemoEvents, LAMBDA e : e.type = ty)

C8_BudgetCheckFirst ==
    /\ [][ \A a \in Agents : \A p \in Proposals :
          (PlaceBid(a, p) /\ p > MaxBidOf[a] - Reserve) =>
              /\ returns' = returns + 1
              /\ toolResult'.kind = "OverBudget"
              /\ toolResult'.agentId = a
              /\ toolResult'.proposedAmount = p
              /\ pending' = pending
              /\ bidRecord' = bidRecord
      ]_vars
    /\ [][ ( /\ returns' = returns + 1
             /\ toolResult'.proposedAmount > MaxBidOf[toolResult'.agentId] - Reserve )
           => toolResult'.kind = "OverBudget" ]_vars

C8_Witness ==
    /\ toolResult.kind = "OverBudget"
    /\ toolResult.proposedAmount <= bidRecord.currentBid
    /\ toolResult.proposedAmount <= MaxBidOf[toolResult.agentId]

(***************************************************************************)
(* C9: every bid attempt against an ended auction is classified Closed,    *)
(* for every proposed amount, amounts above the budget cap included, and   *)
(* leaves the auction state unchanged.                                     *)
(***************************************************************************)
C9_EndedMeansClosed ==
    [][ (returns' = returns + 1 /\ bidRecord.auctionEnded) =>
            /\ toolResult'.status = StatusOf("Closed")
            /\ bidRecord' = bidRecord
      ]_vars

(***************************************************************************)
(* C10: a consumer that polls the event log repeatedly with its advancing  *)
(* watermark never receives an event that an earlier poll already returned *)
(* to it: each event is handed to the consumer by at most one poll.        *)
(***************************************************************************)
C10_NoRedelivery == \A e \in EventIds : delivered[e] <= 1

(***************************************************************************)
(* C11: a consumer that polls the event log repeatedly with its advancing  *)
(* watermark never skips an event: once the watermark has reached the      *)
(* timestamp of a stored event, a poll has handed that event to the        *)
(* consumer or carries it in a response still under way; also for events   *)
(* stored while a poll is in flight or stamped earlier than the moment     *)
(* they become visible.                                                    *)
(***************************************************************************)
UnderWay(id) ==
    \E k \in PollSlots :
        /\ polls[k].pc \in {"queried", "served"}
        /\ \E n \in 1..Len(polls[k].events) : polls[k].events[n].id = id

C11_NoSkip ==
    \A n \in 1..Len(store) :
        (adSpotId = LiveSpot /\ lastFetched.set /\ store[n].timestamp <= lastFetched.t)
        => (delivered[store[n].id] >= 1 \/ UnderWay(store[n].id))

(***************************************************************************)
(* C12: fetch(auctionId, since) returns exactly the events of that auction *)
(* whose timestamp is strictly greater than since, each once and in        *)
(* ascending timestamp order, and never an event with timestamp <= since;  *)
(* when since is omitted it returns the full history.                      *)
(***************************************************************************)
EventLog ==
    IF adSpotId = DemoSpot
    THEN {[DemoEvents[n] EXCEPT !.timestamp = @ + now - DemoWindow] :
             n \in 1..Len(DemoEvents)}
    ELSE {store[n] : n \in 1..Len(store)}

C12_FetchContract ==
    [][ \A k \in PollSlots :
          (ServeDemo(k) \/ ServeQuery(k, TRUE)) =>
              LET since == polls[k].since
                  r == polls'[k].events
              IN /\ {r[n] : n \in 1..Len(r)} =
                       {e \in EventLog : ~since.set \/ e.timestamp > since.t}
                 /\ \A n, m \in 1..Len(r) : n < m =>
                       /\ r[n].timestamp <= r[m].timestamp
                       /\ r[n].id # r[m].id
                 /\ ~since.set => Len(r) = Cardinality(EventLog)
      ]_vars

C12_Witness ==
    \E k \in PollSlots :
        /\ polls[k].pc = "served"
        /\ adSpotId = DemoSpot
        /\ polls[k].since = [set |-> TRUE, t |-> polls[k].timestamp - DemoWindow + 52]
        /\ polls[k].events = <<>>

(***************************************************************************)
(* C13: every exit of the coordinator stops both monitors: when the agent  *)
(* has withdrawn and the auction ended with another winner, or has lost    *)
(* (the auction is gone), or has won and finished or failed creative       *)
(* generation, neither the refund-monitor timer nor the auction-end-       *)
(* monitor timer is running.                                               *)
(***************************************************************************)
BothMonitorsStopped ==
    /\ monitoringInterval = 0
    /\ \A i \in Handles : ~intervals[i].live
    /\ ~auctionEndMonitoringInterval

C13_ExitStopsBothMonitors ==
    [][ ( \/ \E s \in TaskSlots : ChatEnd(s, "ended") \/ ChatEnd(s, "gone")
          \/ \E k \in EndTickSlots : \E out \in {"image", "text", "error"} :
                EndTickGenerated(k, out) )
        => BothMonitorsStopped' ]_vars

(* C14: a Closed rejection is fatal.  Once a bid attempt of the agent has been
   rejected because the auction is closed and no decision task is running any
   more, the coordinator is inactive and both monitors are stopped. *)
C14_ClosedIsFatal ==
    (closed /\ RunningTasks = {}) => (~isActive /\ BothMonitorsStopped)

Entering == {s \in TaskSlots : tasks[s].pc = "balance"}

(* C15: after stop(), called on a started agent, has returned no decision cycle is entered and no monitor
   interval is installed, whatever was pending when stop() was called; running
   decision tasks may finish. *)
C15_StopIsFinal ==
    [][stopped =>
         /\ Cardinality(Entering') <= Cardinality(Entering)
         /\ auctionEndMonitoringInterval' => auctionEndMonitoringInterval
         /\ \A i \in Handles : intervals'[i].live => intervals[i].live]_vars

(* C16: creative generation is started at most once per agent per auction,
   also when callbacks of the auction-end monitor overlap. *)
C16_OneGeneration == generations <= 1

(* C17: creative generation exists only after winning.  A step that starts a
   creative generation is never a step of a decision task, and is taken by an
   auction-end callback that holds a status answer, with the auction ended and
   the agent itself the current winner. *)
C17_GenerationOnlyAfterWin ==
    [][generations' # generations =>
         /\ tasks' = tasks
         /\ auctionEnded /\ currentWinner = "self"
         /\ \E k \in EndTickSlots : endTicks[k] = "status" /\ endTicks'[k] = "generating"]_vars

C17_Witness == generations >= 1 /\ auctionEnded /\ currentWinner = "self"

(* C18: processEventPayment settles a payment, success = true with a
   transaction hash, exactly when the event's bidAmount is at most the agent's
   maxBid, at most the safety threshold and at most the balance it read; in
   every other case it returns success = false, and only a settling call
   executes a payment. *)
C18_SettlesIff ==
    /\ [](payResult.called =>
            /\ payResult.success <=> (/\ payResult.bidAmount <= maxBid
                                      /\ payResult.bidAmount <= SAFETY_THRESHOLD
                                      /\ payResult.bidAmount <= payResult.currentBalance)
            /\ payResult.txHash <=> payResult.success)
    /\ [][settled' # settled <=> (payResult'.called /\ payResult'.success)]_vars

C18_Witness ==
    /\ payResult.called /\ payResult.success /\ settled >= 1
    /\ payResult.bidAmount = 250 /\ maxBid = 500

(* C19: every event whose bidAmount exceeds the safety threshold is blocked and
   reported as a safety-threshold violation, whatever the agent's maxBid. *)
C19_ThresholdReported ==
    (payResult.called /\ payResult.bidAmount > SAFETY_THRESHOLD) =>
        (~payResult.success /\ payResult.message = "SafetyThreshold")

(* C20: an OverBudget rejection reports maxAllowedBid = maxBid - reserve and
   totalBudget = maxBid and echoes the proposed amount; for maxBid 5.00 and
   reserve 0.08 a bid of 6.00 is rejected OverBudget with maxAllowedBid 4.92. *)
C20_OverBudgetReport ==
    /\ [][ \A a \in Agents : \A p \in Proposals :
          (PlaceBid(a, p) /\ toolResult' # toolResult) =>
              /\ toolResult'.kind = "OverBudget"
              /\ toolResult'.proposedAmount = p
              /\ toolResult'.maxAllowedBid = MaxBidOf[a] - Reserve
              /\ toolResult'.totalBudget = MaxBidOf[a]
      ]_vars
    /\ [][ (PlaceBid("IceCo", 600) /\ MaxBidOf["IceCo"] = 500 /\ Reserve = 8) =>
              /\ toolResult'.kind = "OverBudget"
              /\ toolResult'.proposedAmount = 600
              /\ toolResult'.maxAllowedBid = 492
              /\ toolResult'.totalBudget = 500
      ]_vars

C20_Witness ==
    /\ toolResult.kind = "OverBudget"
    /\ toolResult.agentId = "IceCo"
    /\ toolResult.proposedAmount = 600
    /\ toolResult.maxAllowedBid = 492

(* C21: a within-budget bid on an open auction with proposedAmount <=
   currentBid is classified TooLow, a tie included, and leaves the incumbent in
   place; the rejection reports the current bid and, as the minimum to win, the
   current bid plus minimumIncrement, whatever the proposal was. *)
C21_TooLowReport ==
    [][ \A a \in Agents :
          ( /\ Negotiate(a)
            /\ ~bidRecord.auctionEnded
            /\ pending[a].amount <= bidRecord.currentBid ) =>
              /\ toolResult'.kind = "TooLow"
              /\ toolResult'.agentId = a
              /\ bidRecord'.currentWinner = bidRecord.currentWinner
              /\ bidRecord'.currentBid = bidRecord.currentBid
              /\ bidRecord'.bidHistory = bidRecord.bidHistory
              /\ toolResult'.currentBid = bidRecord.currentBid
              /\ toolResult'.minimumRequired = bidRecord.currentBid + minimumIncrement
      ]_vars

C21_Witness ==
    /\ toolResult.kind = "TooLow"
    /\ toolResult.proposedAmount = bidRecord.currentBid
    /\ toolResult.agentId # bidRecord.currentWinner
    /\ toolResult.minimumRequired = toolResult.proposedAmount + minimumIncrement

(* The reference trace: the bids of A = IceCo and B = FizzUp, in cents, with
   the stated classification and the stated currentBid after each. *)
Reference ==
    << [agentId |-> "IceCo", proposedAmount |-> 50, kind |-> "Accepted", currentBid |-> 50],
       [agentId |-> "FizzUp", proposedAmount |-> 75, kind |-> "Accepted", currentBid |-> 75],
       [agentId |-> "FizzUp", proposedAmount |-> 40, kind |-> "TooLow", currentBid |-> 75],
       [agentId |-> "IceCo", proposedAmount |-> 125, kind |-> "Accepted", currentBid |-> 125] >>

(* The invocations so far are the first ones of the reference trace, each
   answered before the auction was closed. *)
OnReference ==
    /\ Len(attempts) <= Len(Reference)
    /\ \A k \in 1..Len(attempts) :
          /\ attempts[k].agentId = Reference[k].agentId
          /\ attempts[k].proposedAmount = Reference[k].proposedAmount
          /\ attempts[k].status # StatusOf("Closed")

AcceptedOf(log) ==
    LET acc == SelectSeq(log, LAMBDA r : r.kind = "Accepted") IN
    [n \in 1..Len(acc) |-> [agentId |-> acc[n].agentId, amount |-> acc[n].proposedAmount]]

(* C22: the reference trace runs as stated.  As long as the invocations are
   those of the trace, each is classified as stated and leaves the stated
   currentBid, the rejected bid of 0.40 reports a minimum above 0.75 and changes
   nothing, the refunds are 0.50 to A and 0.75 to B and no other, and after the
   fourth bid, the close and the refunds the winner is A at 1.25 with exactly
   two refunds; the demo auction's status shows the same history. *)
C22_ReferenceTrace ==
    OnReference =>
        /\ \A k \in 1..Len(attempts) :
              /\ attempts[k].kind = Reference[k].kind
              /\ attempts[k].currentBid = Reference[k].currentBid
        /\ Len(attempts) >= 3 => attempts[3].minimumRequired > 75
        /\ bidRecord.bidHistory = AcceptedOf(attempts)
        /\ \A n \in 1..Len(refunds) :
              refunds[n] \in {[supersededBidId |-> 1, recipient |-> "IceCo", amount |-> 50],
                              [supersededBidId |-> 2, recipient |-> "FizzUp", amount |-> 75]}
        /\ Len(refunds) <= 2
        /\ Len(attempts) = 4 =>
              /\ StatusGET.currentWinner = "IceCo"
              /\ StatusGET.currentBid = 125
              /\ StatusGET.bidHistory = DemoStatus.bidHistory
              /\ StatusGET.currentBid = DemoStatus.currentBid
              /\ StatusGET.currentWinner = DemoStatus.currentWinner
              /\ scheduled = {1, 2}
              /\ (scheduled \subseteq Refunded) => Len(refunds) = 2

C22_Witness ==
    /\ OnReference
    /\ Len(attempts) = 4
    /\ bidRecord.auctionEnded
    /\ Len(refunds) = 2
    /\ bidRecord.currentWinner = "IceCo"

(* C23: a gateway failure while refunding a superseded bid does not roll
   back the bid that superseded it.  The failing call changes neither the bid
   record nor the refund records; afterwards the superseding bid is still in
   the history, currentBid and currentWinner are those of the latest accepted
   bid, and the refund stays scheduled until a retry has written its one
   record. *)
C23_FailedRefundKeepsBid ==
    /\ [](\A i \in refundFailures :
            LET h == bidRecord.bidHistory IN
            /\ i < Len(h)
            /\ h[i + 1].agentId # h[i].agentId
            /\ bidRecord.currentBid = h[Len(h)].amount
            /\ bidRecord.currentWinner = h[Len(h)].agentId
            /\ i \in scheduled
            /\ Cardinality({n \in 1..Len(refunds) : refunds[n].supersededBidId = i}) <= 1)
    /\ [][refundFailures' # refundFailures =>
            (bidRecord' = bidRecord /\ refunds' = refunds /\ scheduled' = scheduled)]_vars
    /\ [][\A i \in refundFailures :
            (IssueRefund(i, TRUE) /\ i \notin Refunded) =>
                refunds' = Append(refunds, [supersededBidId |-> i,
                                            recipient |-> bidRecord.bidHistory[i].agentId,
                                            amount |-> bidRecord.bidHistory[i].amount])]_vars

C23_Witness ==
    \E i \in refundFailures :
        /\ i \in Refunded
        /\ bidRecord.currentBid = bidRecord.bidHistory[i + 1].amount
        /\ bidRecord.currentWinner = bidRecord.bidHistory[i + 1].agentId

(* The timeline entries that render the stored event e. *)
EntriesOf(e) ==
    {n \in 1..Len(messages) :
        /\ messages[n].type = (IF e.type = "bid_placed" THEN "bid" ELSE e.type)
        /\ messages[n].timestamp = e.timestamp
        /\ messages[n].amount = e.amount
        /\ messages[n].transactionHash = e.transactionHash}

(* C24: the consumer deduplicates by natural key: an event handed to it more
   than once, in one poll or in several, is rendered as if handed to it once,
   also when the event carries no transaction id. *)
C24_DeliveryIdempotent ==
    adSpotId = LiveSpot =>
        \A n \in 1..Len(store) : Cardinality(EntriesOf(store[n])) <= 1

(* C25: each party's view holds exactly the timeline entries of that party
   and every shared lifecycle entry: auction-ended and creative-ready entries
   are in every party's view, and no entry of one party is in another's. *)
C25_PartyViews ==
    \A party \in Agents : \A n \in 1..Len(messages) :
        n \in TerminalOf(party, messages) <=>
            \/ messages[n].type \in {"auction_ended", "ad_image_ready"}
            \/ messages[n].agentId = party

SetOf(r) == {r[n] : n \in 1..Len(r)}

(* No event was appended since the full history in fetched was read: the demo
   log has no append, and the store holds what that history held. *)
NothingAppended == adSpotId = DemoSpot \/ Len(store) = Len(fetched.events)

(* C26: the event log is append-only and fetch is repeatable.  A response to
   the watermark of an earlier response, with no event appended since, holds
   the same set of events; and an event of an earlier response has the same
   type, agent and timestamp in every later response that holds it. *)
C26_FetchRepeatable ==
    \A k \in PollSlots :
        (fetched.read /\ polls[k].pc = "served" /\ polls[k].success
                      /\ adSpotId = fetched.spot) =>
            /\ (polls[k].since = fetched.since /\ NothingAppended) =>
                  SetOf(polls[k].events) = SetOf(fetched.events)
            /\ \A e \in SetOf(polls[k].events) : \A f \in SetOf(fetched.events) :
                  e.id = f.id =>
                      /\ e.type = f.type
                      /\ e.agentId = f.agentId
                      /\ e.timestamp = f.timestamp

(* The timeline entry m renders the event e.  A reflection has no entry of its
   own: it is rendered within the bid entry it completes. *)
Renders(m, e) ==
    IF e.type = "reflection"
    THEN m.type = "bid" /\ m.agentId = e.agentId /\ ~m.isLoading
    ELSE /\ m.type = (IF e.type = "bid_placed" THEN "bid" ELSE e.type)
         /\ m.agentId = (IF e.type = "ad_image_ready" THEN e.winner ELSE e.agentId)
         /\ m.amount = e.amount
         /\ m.transactionHash = e.transactionHash

Returned ==
    {e \in SetOf(DemoEvents) \cup SetOf(store) : delivered[e.id] >= 1}

(* C27: nothing is swallowed: every event a poll has handed to the page,
   whatever its type, is rendered by an entry in the terminal of at least one
   party. *)
C27_NothingSwallowed ==
    \A e \in Returned :
        \E party \in Agents : \E n \in TerminalOf(party, messages) :
            Renders(messages[n], e)

(* C28: the stop operations are idempotent.  In every state of the
   coordinator, with the monitors running, stopped or never started, a second
   call of stopRefundMonitoring, stopAuctionEndMonitoring or stop() leaves the
   coordinator exactly as the first call left it; and what stop() does to the
   agent is what the three operations say. *)
C28_StopIdempotent ==
    /\ [](/\ stopRefundMonitoringOn(stopRefundMonitoringOn(Coordinator))
               = stopRefundMonitoringOn(Coordinator)
          /\ stopAuctionEndMonitoring(stopAuctionEndMonitoring(Coordinator))
               = stopAuctionEndMonitoring(Coordinator)
          /\ stop(stop(Coordinator)) = stop(Coordinator))
    /\ [][Stop => Coordinator' = [stop(Coordinator) EXCEPT !.intervals = Collect(@, ticks)]]_vars

C28_Witness ==
    /\ stopped
    /\ ~isActive
    /\ monitoringInterval = 0
    /\ ~auctionEndMonitoringInterval
    /\ \E i \in Handles : intervals[i] # NoInterval
    /\ \E k \in TickSlots : ticks[k].pc # "idle"
    /\ stop(Coordinator) = Coordinator

(* C29: creative-generation polling always terminates.  Once the task is
   created the call returns: with success at the first poll that reports a
   generated image, with failure at the first poll that reports a failed
   status, and otherwise with Timeout after exactly MaxPollAttempts polls,
   thrown polls counted among them; while the call polls, no poll so far has
   reported an image or a failed status. *)
C29_PollingTerminates ==
    /\ [](/\ genI <= MaxPollAttempts
          /\ genPc \in {"loop", "poll"} => genSeen.image = 0 /\ genSeen.failed = 0
          /\ genPc = "done" =>
               /\ genReturn \in {"SUCCESS", "ERROR: failed", "ERROR: Timeout", "ERROR: thrown"}
               /\ genReturn = "SUCCESS" =>
                    /\ genSeen.image = genI + 1
                    /\ genSeen.failed \in {0, genSeen.image}
               /\ genReturn = "ERROR: failed" =>
                    /\ genSeen.failed = genI + 1
                    /\ genSeen.image = 0
               /\ genReturn = "ERROR: Timeout" =>
                    /\ genI = MaxPollAttempts
                    /\ genSeen.image = 0 /\ genSeen.failed = 0
               /\ genReturn = "ERROR: thrown" => genSeen = NoPolls)
    /\ (genPc \in {"loop", "poll"} ~> genPc = "done")

C29_Witness ==
    /\ genPc = "done"
    /\ genReturn = "ERROR: Timeout"
    /\ genI = MaxPollAttempts
    /\ genSeen.thrown > 0
    /\ genSeen.thrown < MaxPollAttempts

(* C30: a balance increase seen while the ledger still names this agent as
   current winner is taken for the agent's own bid upgrade.  The callback that
   gets that answer starts no decision (no task, no timer, no requeue), leaves
   refundPending and lastRefundAmount as they were, leaves the monitor's
   handle and its interval as they were, and sets the interval's baseline to
   the balance it read. *)
C30_OwnUpgradeIgnored ==
    [][\A k \in TickSlots :
         (ticks[k].pc = "status" /\ currentWinner = "self" /\ TickGotStatus(k, TRUE)) =>
            /\ UNCHANGED <<tasks, timers, immediates, unanswered, isInAIReasoning,
                           refundPending, lastRefundAmount, monitoringInterval>>
            /\ LET i == ticks[k].iv IN
                 intervals[i].live =>
                    intervals'[i] = [live |-> TRUE, previousBalance |-> ticks[k].cur]]_vars

C30_Witness ==
    /\ ownUpgrades
    /\ currentWinner = "self"
    /\ monitoringInterval # 0
    /\ intervals[monitoringInterval].live
    /\ intervals[monitoringInterval].previousBalance > 0
    /\ \A k \in TickSlots : ticks[k].pc = "idle"
    /\ lastRefundAmount = 0
    /\ ~refundPending
    /\ timers = 0 /\ immediates = 0

(* The bid entries of the timeline that a step turns from unreflected to
   reflected. *)
Reflected ==
    {n \in 1..Len(messages) :
        /\ n <= Len(messages')
        /\ messages[n].type = "bid" /\ messages[n].isLoading
        /\ ~messages'[n].isLoading}

(* C31: a reflection attaches to exactly one bid record, the submitting
   agent's most recent bid without a reflection.  No step changes the amount
   or the timestamp of a bid entry; a step reflects at most one bid, and no
   later unreflected bid of the same agent precedes it in recency. *)
C31_ReflectionAttachesOnce ==
    [][/\ Len(messages') >= Len(messages)
       /\ \A n \in 1..Len(messages) :
             /\ messages'[n].amount = messages[n].amount
             /\ messages'[n].timestamp = messages[n].timestamp
       /\ Cardinality(Reflected) <= 1
       /\ \A n \in Reflected : \A m \in 1..Len(messages) :
             (/\ m > n /\ messages[m].type = "bid" /\ messages[m].isLoading
              /\ messages[m].agentId = messages[n].agentId) => m \in Reflected]_vars

(* The place_bid invocation was answered with a protocol rejection. *)
Rejected ==
    /\ bidCall.answered
    /\ \/ bidCall.result \in {"OverBudget", "TooLow"}
       \/ bidCall.status = 410

(* C32: within one decision cycle at most N = maxSteps tool invocations run; a
   place_bid invocation rejected as TooLow, OverBudget or Closed sends no
   further request; an invocation that failed with a network error sends at
   most one further request. *)
C32_BoundedInvocations ==
    /\ [](invocations <= maxSteps)
    /\ [][/\ (Rejected /\ invocations' = invocations) =>
                bidCall'.requests = bidCall.requests
          /\ (bidCall.answered /\ bidCall.status = NetworkError
                /\ bidCall.result = "Failed" /\ invocations' = invocations) =>
                bidCall'.requests <= bidCall.requests + 1]_vars

(* C33: an auction is closed by deadline expiry.  Whenever the status query
   of an existing auction reports timeRemaining = 0 it reports auctionEnded =
   true, and timeRemaining is never negative. *)
C33_ClosedByDeadline ==
    \A ms \in SubSecond :
        bidRecord.exists =>
            /\ timeRemaining(ms) >= 0
            /\ timeRemaining(ms) = 0 => StatusGET.auctionEnded

(* C34: isInAIReasoning is true exactly while a decision task of the agent is
   running: true in every state in which a run of decideBidStrategy is between
   its entry and its finally block, false in every other state. *)
C34_FlagTracksTask == isInAIReasoning <=> RunningTasks # {}

(* The refund-monitor timers that exist: the intervals set and not cleared. *)
LiveIntervals == {i \in DOMAIN intervals : intervals[i].live}

(* C35: at most one refund-monitor timer exists per agent at any time, and
   when the coordinator holds no refund-monitor handle (none was installed
   yet, or stopRefundMonitoring has cleared it) no refund-monitor timer is
   ticking. *)
C35_OneTimerPerMonitor ==
    /\ Cardinality(LiveIntervals) <= 1
    /\ monitoringInterval = 0 => LiveIntervals = {}

(* The timeline entry m shows what the entry n showed: the same kind of
   entry of the same agent and transaction, and for an entry that is not a bid
   of the same moment. *)
Keeps(n, m) ==
    /\ m.type = n.type
    /\ m.agentId = n.agentId
    /\ m.transactionHash = n.transactionHash
    /\ n.type # "bid" => m.timestamp = n.timestamp

(* C36: loading the bid history and polling in either completion order.  No
   step removes an entry from the timeline, and no bid (agent and
   transaction) is shown by two entries. *)
C36_LoadKeepsTimeline ==
    /\ [](\A n, m \in 1..Len(messages) :
            (/\ n # m
             /\ messages[n].type = "bid" /\ messages[m].type = "bid"
             /\ messages[n].agentId = messages[m].agentId)
            => messages[n].transactionHash # messages[m].transactionHash)
    /\ [][\A n \in 1..Len(messages) :
            \E m \in 1..Len(messages') : Keeps(messages[n], messages'[m])]_vars

(* C37: the page's watermark never decreases.  Once lastFetched is set it
   stays set, and no step moves it to an earlier time, also with polls that
   overlap and are answered out of order. *)
C37_WatermarkMonotone ==
    [][lastFetched.set => (lastFetched'.set /\ lastFetched'.t >= lastFetched.t)]_vars

(* The events of the ad spot that are newer than since at this moment: the
   stored ones of a live spot, and of the demo the ones its clock has reached. *)
NewerEvents(since) ==
    IF adSpotId = DemoSpot
    THEN {[DemoEvents[n] EXCEPT !.timestamp = now - DemoWindow + @] :
            n \in {i \in 1..Len(DemoEvents) :
                     /\ now - DemoWindow + DemoEvents[i].timestamp <= now
                     /\ since.set => now - DemoWindow + DemoEvents[i].timestamp > since.t}}
    ELSE {store[n] : n \in {i \in 1..Len(store) :
                             since.set => store[i].timestamp > since.t}}

(* C38: a failed poll is harmless.  A poll whose fetch throws, or whose
   response says success = false, leaves the timeline and the watermark as
   they are; every poll is sent with the watermark as it then is; and a
   successful answer carries every event newer than the watermark it was
   asked with. *)
C38_FailedPollHarmless ==
    [][\A k \in PollSlots :
        /\ ((polls[k].pc = "served" /\ polls'[k].pc = "idle" /\ ~polls[k].success)
                \/ PollReceive(k, FALSE))
            => UNCHANGED <<messages, seenEventIds, currentBid, lastFetched>>
        /\ (polls[k].pc = "idle" /\ polls'[k].pc = "sent")
            => polls'[k].since = lastFetched
        /\ (polls[k].pc = "sent" /\ polls'[k].pc # "sent" /\ polls'[k].success)
            => \A e \in NewerEvents(polls[k].since) :
                  \E n \in 1..Len(polls'[k].events) : polls'[k].events[n] = e]_vars

(* A poll has failed and left no watermark, and the poll that followed it is
   answered with the events stored so far. *)
C38_Witness ==
    /\ adSpotId = LiveSpot
    /\ polled = 2
    /\ ~lastFetched.set
    /\ messages = <<>>
    /\ polls[2].pc = "idle"
    /\ polls[1].pc = "served" /\ polls[1].success
    /\ Len(store) = 2
    /\ Len(polls[1].events) = 2

(* place_bid returns in this step: the attempt it adds to the log. *)
ToolReturned(kind) ==
    /\ Len(attempts') = Len(attempts) + 1
    /\ attempts'[Len(attempts')].kind = kind

(* C39: an over-budget bid changes nothing.  The step in which place_bid
   answers OverBudget sends no request to the ledger and leaves the auction and
   every agent's lastBidAmount as they are; an agent's lastBidAmount changes
   only in a step in which its bid is answered Accepted, and then becomes the
   accepted currentBid. *)
C39_OverBudgetChangesNothing ==
    [][/\ ToolReturned("OverBudget")
            => UNCHANGED <<pending, bidRecord, bases, scheduled, refunds, lastBidAmount>>
       /\ \A a \in Agents :
            lastBidAmount'[a] # lastBidAmount[a]
            => /\ ToolReturned("Accepted")
               /\ attempts'[Len(attempts')].agentId = a
               /\ lastBidAmount'[a] = attempts'[Len(attempts')].currentBid
               /\ lastBidAmount'[a] = bidRecord'.currentBid]_vars

(* An agent that holds an accepted bid and has been outbid is answered
   OverBudget for its next proposal, while the other agent's request is on
   its way to the ledger. *)
C39_Witness ==
    /\ toolResult.kind = "OverBudget"
    /\ Len(attempts) >= 3
    /\ attempts[Len(attempts)] = toolResult
    /\ lastBidAmount[toolResult.agentId] > 0
    /\ bidRecord.currentWinner \notin {"none", toolResult.agentId}
    /\ bidRecord.currentBid > lastBidAmount[toolResult.agentId]
    /\ \E b \in Agents : pending[b] # NoRequest

====
